---- MODULE Spec2Model ----
(***************************************************************************)
(* Markdown + math rendering pipeline of the reading companion:            *)
(*   - KaTeXMathRenderer      (lazy engine singleton, renderMath, batch)   *)
(*   - MathTextProcessor      (scanner, placeholders, reconstruction)      *)
(*   - UnifiedMarkdownProcessor.processMarkdown (orchestrator + fallback)  *)
(*   - MathMarkdownRenderer.processMathMarkdown (math pipeline)            *)
(* Text is a sequence of one-character strings; markup tags that the code  *)
(* emits as string literals are single elements of such a sequence.        *)
(***************************************************************************)
EXTENDS Integers, Sequences, FiniteSets, TLC

\* ------------------------------------------------------------------------
\* Text primitives (JavaScript String / RegExp semantics, 0-based offsets)
\* ------------------------------------------------------------------------

\* String.prototype.slice(a, b) for 0 <= a, b (clamped to the length).
Slice(s, a, b) ==
  LET hi == IF b > Len(s) THEN Len(s) ELSE b
  IN  IF a >= hi THEN << >> ELSE SubSeq(s, a + 1, hi)

\* The character at 0-based offset i, or "" past the end.
CharAt(s, i) == IF i >= 0 /\ i < Len(s) THEN s[i + 1] ELSE ""

\* Whether pattern p occurs in s at 0-based offset i.
MatchesAt(s, p, i) ==
  /\ i + Len(p) <= Len(s)
  /\ \A k \in 1..Len(p) : s[i + k] = p[k]

Range(s) == {s[k] : k \in 1..Len(s)}

\* String.prototype.startsWith
StartsWith(s, p) == MatchesAt(s, p, 0)

\* String.prototype.includes
Includes(s, p) == \E i \in 0..Len(s) : MatchesAt(s, p, i)

\* The least element of a non-empty set of integers.
Min(S) == CHOOSE x \in S : \A y \in S : x <= y

\* The greatest element of a non-empty set of integers.
Max(S) == CHOOSE x \in S : \A y \in S : x >= y

\* The first of the offsets at which a pattern matches, or -1: where a scan
\* that advances one character after each failed attempt finds its next
\* match.
FirstMatch(hits) == IF hits = {} THEN -1 ELSE Min(hits)

RECURSIVE ReplaceFrom(_, _, _, _)
ReplaceFrom(s, p, r, i) ==
  LET j == FirstMatch({k \in i..Len(s) - Len(p) :
                       MatchesAt(s, p, k)})
  IN  IF j = -1 THEN Slice(s, i, Len(s))
      ELSE Slice(s, i, j) \o r \o ReplaceFrom(s, p, r, j + Len(p))

\* String.prototype.replace(/p/g, r) for a literal, non-empty pattern p:
\* leftmost matches, left to right, not overlapping.
ReplaceAll(s, p, r) == ReplaceFrom(s, p, r, 0)

RECURSIVE CountFrom(_, _, _)
CountFrom(s, p, i) ==
  LET j == FirstMatch({k \in i..Len(s) - Len(p) :
                       MatchesAt(s, p, k)})
  IN  IF j = -1 THEN 0 ELSE 1 + CountFrom(s, p, j + Len(p))

\* (s.match(/p/g) || []).length for a literal, non-empty pattern p.
CountMatches(s, p) == CountFrom(s, p, 0)

Whitespace == {" ", "\n", "\t"}

TrimStart(s) ==
  LET j == FirstMatch({k \in 1..Len(s) :
                       s[k] \notin Whitespace})
  IN  IF j = -1 THEN << >> ELSE SubSeq(s, j, Len(s))

TrimEnd(s) ==
  LET kept == {k \in 1..Len(s) : s[k] \notin Whitespace}
  IN  IF kept = {} THEN << >> ELSE SubSeq(s, 1, Max(kept))

\* String.prototype.trim
Trim(s) == TrimEnd(TrimStart(s))

\* The entity an escaped character is written as.
HtmlEntity(c) ==
  CASE c = "&"  -> <<"&", "a", "m", "p", ";">>
    [] c = "<"  -> <<"&", "l", "t", ";">>
    [] c = ">"  -> <<"&", "g", "t", ";">>
    [] c = "\"" -> <<"&", "q", "u", "o", "t", ";">>
    [] OTHER    -> <<"&", "#", "3", "9", ";">>

\* The text from offset i on with every character of `special` replaced by
\* its entity.
RECURSIVE EscapeFrom(_, _, _)
EscapeFrom(text, special, i) ==
  LET j == FirstMatch({k \in i..Len(text) - 1 :
                       text[k + 1] \in special})
  IN  IF j = -1 THEN Slice(text, i, Len(text))
      ELSE Slice(text, i, j) \o HtmlEntity(text[j + 1])
             \o EscapeFrom(text, special, j + 1)

Digits == {"0", "1", "2", "3", "4", "5", "6", "7", "8", "9"}

Letters ==
  {"a", "b", "c", "d", "e", "f", "g", "h", "i", "j", "k", "l", "m",
   "n", "o", "p", "q", "r", "s", "t", "u", "v", "w", "x", "y", "z",
   "A", "B", "C", "D", "E", "F", "G", "H", "I", "J", "K", "L", "M",
   "N", "O", "P", "Q", "R", "S", "T", "U", "V", "W", "X", "Y", "Z"}

DigitChar(d) ==
  CASE d = 0 -> "0" [] d = 1 -> "1" [] d = 2 -> "2" [] d = 3 -> "3"
    [] d = 4 -> "4" [] d = 5 -> "5" [] d = 6 -> "6" [] d = 7 -> "7"
    [] d = 8 -> "8" [] OTHER -> "9"

DigitValue(c) ==
  CASE c = "0" -> 0 [] c = "1" -> 1 [] c = "2" -> 2 [] c = "3" -> 3
    [] c = "4" -> 4 [] c = "5" -> 5 [] c = "6" -> 6 [] c = "7" -> 7
    [] c = "8" -> 8 [] OTHER -> 9

RECURSIVE NumberToString(_)
\* Template-literal formatting of a non-negative integer: `${index}`.
NumberToString(n) ==
  IF n < 10 THEN <<DigitChar(n)>>
  ELSE NumberToString(n \div 10) \o <<DigitChar(n % 10)>>

RECURSIVE ParseDigits(_, _)
ParseDigits(s, acc) ==
  IF s = << >> THEN acc
  ELSE ParseDigits(Tail(s), 10 * acc + DigitValue(Head(s)))

\* parseInt(s, 10) for a non-empty run of decimal digits.
ParseInt(s) == ParseDigits(s, 0)

\* ------------------------------------------------------------------------
\* MathTextProcessor
\* ------------------------------------------------------------------------

MATH_PLACEHOLDER_PREFIX == <<"_", "_", "M", "A", "T", "H", "_">>

INLINE_PLACEHOLDER ==
  <<"_", "_", "M", "A", "T", "H", "_", "I", "N", "L", "I", "N", "E", "_">>

DISPLAY_PLACEHOLDER ==
  <<"_", "_", "M", "A", "T", "H", "_",
    "D", "I", "S", "P", "L", "A", "Y", "_">>

\* The temporary token preprocessText substitutes for an escaped dollar.
ESCAPED_DOLLAR ==
  <<"_", "_", "E", "S", "C", "A", "P", "E", "D", "_",
    "D", "O", "L", "L", "A", "R", "_", "_">>

\* 0-based offset of the first character at or after i that is in `stop`,
\* or Len(s) when there is none.
FirstIn(s, stop, i) ==
  LET j == FirstMatch({k \in i..Len(s) - 1 :
                       s[k + 1] \in stop})
  IN  IF j = -1 THEN Len(s) ELSE j

\* One attempt of /\$\$([^$]+?)\$\$/ at offset i: the end offset of the
\* match, or -1.  The body cannot hold a "$", so it is the run up to the
\* next "$", which must be non-empty and followed by "$$".
DisplayMatchEnd(text, i) ==
  LET j == FirstIn(text, {"$"}, i + 2)
  IN  IF /\ CharAt(text, i) = "$" /\ CharAt(text, i + 1) = "$"
         /\ j > i + 2
         /\ CharAt(text, j) = "$" /\ CharAt(text, j + 1) = "$"
      THEN j + 2 ELSE -1

\* One attempt of /(?<!\\)\$([^$\n]+?)\$/ at offset i: the end offset of
\* the match, or -1.
InlineMatchEnd(text, i) ==
  LET j == FirstIn(text, {"$", "\n"}, i + 1)
  IN  IF /\ CharAt(text, i) = "$"
         /\ CharAt(text, i - 1) # "\\"
         /\ j > i + 1
         /\ CharAt(text, j) = "$"
      THEN j + 1 ELSE -1

\* while ((match = displayMathRegex.exec(text)) !== null) expressions.push
RECURSIVE DisplayExpressions(_, _)
DisplayExpressions(text, i) ==
  LET j == FirstMatch({k \in i..Len(text) - 1 :
                       DisplayMatchEnd(text, k) # -1})
      e == DisplayMatchEnd(text, j)
  IN  IF j = -1 THEN << >>
      ELSE <<[match   |-> Slice(text, j, e),
              content |-> Trim(Slice(text, j + 2, e - 2)),
              type    |-> "display",
              start   |-> j,
              end     |-> e]>> \o DisplayExpressions(text, e)

\* regex.test(content) for each of the mathIndicators, in source order.
MathIndicators(content) ==
  LET n == Len(content)
      has(S) == \E k \in 1..n : content[k] \in S
  IN  << has({"+", "-", "*", "/", "=", "<", ">"}),
         has({"{", "}", "^", "_"}),
         \E k \in 1..n : content[k] = "\\" /\ CharAt(content, k) \in Letters,
         has(Digits),
         \E k \in 1..n : content[k] \in Letters /\ CharAt(content, k) \in Digits,
         \E k \in 1..n : content[k] = "(" /\ \E m \in (k + 1)..n : content[m] = ")",
         \E k \in 1..n : content[k] = "[" /\ \E m \in (k + 1)..n : content[m] = "]" >>

isValidInlineMath(content) ==
  IF content = << >> THEN FALSE
  ELSE \E k \in 1..7 : MathIndicators(content)[k]

\* Mutation: the overlap test is dropped.
overlapsWithDisplay_never(expressions, start, end) == FALSE

\* expressions.some(expr => start/end falls inside expr)
overlapsWithDisplay(expressions, start, end) ==
  \E k \in 1..Len(expressions) :
     \/ (start >= expressions[k].start /\ start < expressions[k].end)
     \/ (end > expressions[k].start /\ end <= expressions[k].end)

\* The inline loop: `expressions` is the list built so far (display first).
RECURSIVE InlineExpressions(_, _, _)
InlineExpressions(text, i, expressions) ==
  LET j == FirstMatch({k \in i..Len(text) - 1 :
                       InlineMatchEnd(text, k) # -1})
      e == InlineMatchEnd(text, j)
  IN  IF j = -1 THEN expressions
      ELSE IF /\ ~overlapsWithDisplay(expressions, j, e)
              /\ isValidInlineMath(Slice(text, j + 1, e - 1))
      THEN InlineExpressions(text, e,
             Append(expressions,
                    [match   |-> Slice(text, j, e),
                     content |-> Trim(Slice(text, j + 1, e - 1)),
                     type    |-> "inline",
                     start   |-> j,
                     end     |-> e]))
      ELSE InlineExpressions(text, e, expressions)

\* Whether a sorts strictly before b: by ascending start, or by descending
\* start (the two comparators the code passes to Array.prototype.sort).
StartsBefore(a, b, descending) ==
  IF descending THEN a.start > b.start ELSE a.start < b.start

\* Insert x into a sorted list after the elements that do not sort after it
\* (Array.prototype.sort is stable).
RECURSIVE InsertSorted(_, _, _)
InsertSorted(x, sorted, descending) ==
  IF sorted = << >> THEN <<x>>
  ELSE IF StartsBefore(x, Head(sorted), descending) THEN <<x>> \o sorted
  ELSE <<Head(sorted)>> \o InsertSorted(x, Tail(sorted), descending)

RECURSIVE SortByStart(_, _)
SortByStart(list, descending) ==
  IF list = << >> THEN << >>
  ELSE InsertSorted(list[Len(list)],
                    SortByStart(SubSeq(list, 1, Len(list) - 1), descending),
                    descending)

\* Mutation: the final sort by position is dropped.
extractMathExpressions_unsorted(text) ==
  InlineExpressions(text, 0, DisplayExpressions(text, 0))

extractMathExpressions(text) ==
  SortByStart(InlineExpressions(text, 0, DisplayExpressions(text, 0)), FALSE)

\* `${INLINE_PLACEHOLDER}${index}__` or `${DISPLAY_PLACEHOLDER}${index}__`
PlaceholderFor(type, index) ==
  (IF type = "inline" THEN INLINE_PLACEHOLDER ELSE DISPLAY_PLACEHOLDER)
    \o NumberToString(index) \o <<"_", "_">>

\* sortedExpressions.forEach((expr, reverseIndex) => ...) from reverseIndex r
\* on; acc carries processedText and mathParts.
RECURSIVE ReplaceLoop(_, _, _, _)
ReplaceLoop(sortedExpressions, n, r, acc) ==
  IF r >= Len(sortedExpressions) THEN acc
  ELSE LET expr  == sortedExpressions[r + 1]
           index == n - 1 - r
       IN  ReplaceLoop(sortedExpressions, n, r + 1,
             [processedText |->
                Slice(acc.processedText, 0, expr.start)
                  \o PlaceholderFor(expr.type, index)
                  \o Slice(acc.processedText, expr.end, Len(acc.processedText)),
              mathParts |->
                <<[content       |-> expr.content,
                   type          |-> expr.type,
                   index         |-> index,
                   originalMatch |-> expr.match]>> \o acc.mathParts])

\* Mutation: the expressions are substituted from the lowest offset up.
replaceMathWithPlaceholders_ascending(text, mathExpressions) ==
  ReplaceLoop(SortByStart(mathExpressions, FALSE), Len(mathExpressions), 0,
              [processedText |-> text, mathParts |-> << >>])

replaceMathWithPlaceholders(text, mathExpressions) ==
  ReplaceLoop(SortByStart(mathExpressions, TRUE), Len(mathExpressions), 0,
              [processedText |-> text, mathParts |-> << >>])

\* One attempt of /(__MATH_(?:INLINE|DISPLAY)_\d+__)/ at offset i: the end
\* offset of the match, or -1.
PlaceholderMatchEnd(text, i) ==
  LET kind == IF MatchesAt(text, INLINE_PLACEHOLDER, i)
              THEN Len(INLINE_PLACEHOLDER)
              ELSE IF MatchesAt(text, DISPLAY_PLACEHOLDER, i)
              THEN Len(DISPLAY_PLACEHOLDER)
              ELSE 0
      d == i + kind
      j == FirstIn(text, {c \in Range(text) : c \notin Digits}, d)
  IN  IF kind > 0 /\ j > d /\ MatchesAt(text, <<"_", "_">>, j)
      THEN j + 2 ELSE -1

RECURSIVE SplitFrom(_, _)
SplitFrom(text, i) ==
  LET j == FirstMatch({k \in i..Len(text) - 1 :
                       PlaceholderMatchEnd(text, k) # -1})
      e == PlaceholderMatchEnd(text, j)
  IN  IF j = -1 THEN <<Slice(text, i, Len(text))>>
      ELSE <<Slice(text, i, j), Slice(text, j, e)>> \o SplitFrom(text, e)

\* text.split(placeholderRegex): the capture group keeps the placeholders.
splitTextByPlaceholders(text) == SplitFrom(text, 0)

parse(text) ==
  IF text = << >>
  THEN [textParts |-> <<text>>, mathParts |-> << >>, hasValidMath |-> FALSE]
  ELSE LET mathMatches == extractMathExpressions(text)
           replaced    == replaceMathWithPlaceholders(text, mathMatches)
       IN  IF Len(mathMatches) = 0
           THEN [textParts |-> <<text>>, mathParts |-> << >>,
                 hasValidMath |-> FALSE]
           ELSE [textParts    |-> splitTextByPlaceholders(replaced.processedText),
                 mathParts    |-> replaced.mathParts,
                 hasValidMath |-> Len(replaced.mathParts) > 0]

\* placeholder.match(/(\d+)__$/): the digits before the final "__", or -1.
extractIndexFromPlaceholder(placeholder) ==
  LET n == Len(placeholder)
      body == Slice(placeholder, 0, n - 2)
      RECURSIVE DigitsStart(_)
      DigitsStart(k) ==
        IF k > 0 /\ body[k] \in Digits THEN DigitsStart(k - 1) ELSE k
      d == DigitsStart(Len(body))
  IN  IF n >= 3 /\ MatchesAt(placeholder, <<"_", "_">>, n - 2) /\ d < Len(body)
      THEN ParseInt(Slice(body, d, Len(body))) ELSE -1

\* textParts.forEach(...) from part k on.  renderedMath is the Map, as a
\* function from the indexes it holds to markup.
RECURSIVE ReconstructFrom(_, _, _, _)
ReconstructFrom(textParts, mathParts, renderedMath, k) ==
  IF k > Len(textParts) THEN << >>
  ELSE LET part == textParts[k]
           mathIndex == extractIndexFromPlaceholder(part)
           found == {m \in 1..Len(mathParts) : mathParts[m].index = mathIndex}
           piece ==
             IF StartsWith(part, MATH_PLACEHOLDER_PREFIX)
             THEN IF mathIndex \in DOMAIN renderedMath
                  THEN renderedMath[mathIndex]
                  ELSE IF found # {}
                  THEN mathParts[CHOOSE m \in found : \A o \in found : m <= o]
                         .originalMatch
                  ELSE << >>
             ELSE part
       IN  piece \o ReconstructFrom(textParts, mathParts, renderedMath, k + 1)

reconstructText(textParts, mathParts, renderedMath) ==
  ReconstructFrom(textParts, mathParts, renderedMath, 1)

\* text.replace(/\\\$/g, '__ESCAPED_DOLLAR__')
preprocessText(text) == ReplaceAll(text, <<"\\", "$">>, ESCAPED_DOLLAR)

\* text.replace(/__ESCAPED_DOLLAR__/g, '$')
postprocessText(text) == ReplaceAll(text, ESCAPED_DOLLAR, <<"$">>)

\* ------------------------------------------------------------------------
\* Lazy delimited patterns: open, a body, close (JavaScript RegExp, /g)
\* ------------------------------------------------------------------------

\* The grave accent (U+0060), which a TLA+ string cannot hold: one element
\* that no other character equals.
Backtick == "U+0060"

\* The offset of the first `close` at or after k that is reached without
\* crossing a character the body may not hold, or -1.
FindClose(text, k, close, forbidden) ==
  LET j == FirstMatch({m \in k..Len(text) - Len(close) :
                       MatchesAt(text, close, m)})
  IN  IF j = -1 \/ FirstIn(text, forbidden, k) < j THEN -1 ELSE j

\* One attempt of /open(body)close/ at offset i, the body lazy, at least
\* minBody (0 or 1) characters long and free of `forbidden`: the offset of
\* the close, or -1.
DelimitedClose(text, i, open, close, forbidden, minBody) ==
  IF /\ MatchesAt(text, open, i)
     /\ (minBody = 1) =>
          /\ i + Len(open) < Len(text)
          /\ text[i + Len(open) + 1] \notin forbidden
  THEN FindClose(text, i + Len(open) + minBody, close, forbidden)
  ELSE -1

\* text.replace(/open(body)close/g, left + '$1' + right)
RECURSIVE ReplaceDelimited(_, _, _, _, _, _, _, _)
ReplaceDelimited(text, i, open, close, forbidden, minBody, left, right) ==
  LET j == FirstMatch({m \in i..Len(text) - 1 :
                       DelimitedClose(text, m, open, close,
                                      forbidden, minBody) # -1})
      k == DelimitedClose(text, j, open, close, forbidden, minBody)
  IN  IF j = -1 THEN Slice(text, i, Len(text))
      ELSE Slice(text, i, j) \o left \o Slice(text, j + Len(open), k)
             \o right
             \o ReplaceDelimited(text, k + Len(close), open, close,
                                 forbidden, minBody, left, right)

\* (text.match(/open(body)close/g) || []).length
RECURSIVE CountDelimited(_, _, _, _, _, _)
CountDelimited(text, i, open, close, forbidden, minBody) ==
  LET j == FirstMatch({m \in i..Len(text) - 1 :
                       DelimitedClose(text, m, open, close,
                                      forbidden, minBody) # -1})
      k == DelimitedClose(text, j, open, close, forbidden, minBody)
  IN  IF j = -1 THEN 0
      ELSE 1 + CountDelimited(text, k + Len(close), open, close,
                              forbidden, minBody)

\* ------------------------------------------------------------------------
\* UnifiedMarkdownProcessor: pure parts
\* ------------------------------------------------------------------------

\* escapeHtml: through the DOM where there is a document (text node
\* serialisation), else the chain of five replacements.
escapeHtmlUnified(text, documentDefined) ==
  EscapeFrom(text, IF documentDefined THEN {"&", "<", ">"}
                   ELSE {"&", "<", ">", "\"", "'"}, 0)

\* The elements of a markup that begin with "<": the tags this model emits
\* as one element each, and the character itself.
AngleTokens ==
  {"<", "<p>", "</p>", "<br>", "<h1>", "</h1>", "<h2>", "</h2>", "<h3>",
   "</h3>", "<strong>", "</strong>", "<em>", "</em>", "<code>", "</code>",
   "<pre>", "</pre>", "<a href=\"", "</a>", "<table>", "</table>",
   "<table class=\"t\">", "<tr>", "</tr>", "<td>", "</td>",
   "<div class=\"table-wrapper\">", "</div>"}

TableOpenTokens == {"<table>", "<table class=\"t\">"}

HeadingCloseTokens == {"</h1>", "</h2>", "</h3>"}

\* html.replace(/<table([^>]*)>/g, '<div class="table-wrapper"><table$1>')
\*     .replace(/<\/table>/g, '</table></div>')
RECURSIVE WrapTablesFrom(_, _)
WrapTablesFrom(html, i) ==
  LET j == FirstIn(html, TableOpenTokens \cup {"</table>"}, i)
  IN  IF j >= Len(html) THEN Slice(html, i, Len(html))
      ELSE Slice(html, i, j)
             \o (IF html[j + 1] = "</table>" THEN <<"</table>", "</div>">>
                 ELSE <<"<div class=\"table-wrapper\">", html[j + 1]>>)
             \o WrapTablesFrom(html, j + 1)

wrapTablesInScrollableDiv(html) == WrapTablesFrom(html, 0)

\* Whether (?!\s*<) holds at offset i: after any whitespace there is no "<".
NotBeforeAngle(html, i) ==
  CharAt(html, FirstIn(html, {c \in Range(html) : c \notin Whitespace}, i))
    \notin AngleTokens

\* html.replace(/(<closing tag>)(?!\s*<)/g, '$1\n') for the given tags.
RECURSIVE SpaceAfter(_, _, _)
SpaceAfter(html, closers, i) ==
  LET j == FirstMatch({k \in i..Len(html) - 1 :
                       /\ html[k + 1] \in closers
                       /\ NotBeforeAngle(html, k + 1)})
  IN  IF j = -1 THEN Slice(html, i, Len(html))
      ELSE Slice(html, i, j + 1) \o <<"\n">>
             \o SpaceAfter(html, closers, j + 1)

\* One attempt of /\n\s*\n\s*\n/ at offset i (greedy, with backtracking):
\* the end offset of the match, or -1.  The match runs from a newline over
\* whitespace holding a second newline up to the last newline of the run.
BlankRunEnd(html, i) ==
  LET runEnd == FirstIn(html, {c \in Range(html) : c \notin Whitespace}, i)
      newlines == {k \in i..(runEnd - 1) : html[k + 1] = "\n"}
  IN  IF CharAt(html, i) = "\n" /\ Cardinality(newlines) >= 3
      THEN 1 + CHOOSE k \in newlines : \A m \in newlines : m <= k
      ELSE -1

\* html.replace(/\n\s*\n\s*\n/g, '\n\n')
RECURSIVE CollapseBlankRuns(_, _)
CollapseBlankRuns(html, i) ==
  LET j == FirstMatch({k \in i..Len(html) - 1 :
                       BlankRunEnd(html, k) # -1})
  IN  IF j = -1 THEN Slice(html, i, Len(html))
      ELSE Slice(html, i, j) \o <<"\n", "\n">>
             \o CollapseBlankRuns(html, BlankRunEnd(html, j))

postProcessHtml(html) ==
  CollapseBlankRuns(
    SpaceAfter(SpaceAfter(wrapTablesInScrollableDiv(html),
                          HeadingCloseTokens, 0),
               {"</p>"}, 0),
    0)

\* html.replace(/^prefix(.*$)/gim, open + '$1' + close): every line that
\* starts with the prefix becomes the element around the rest of the line.
RECURSIVE ReplaceHeaderLines(_, _, _, _, _)
ReplaceHeaderLines(text, i, prefix, open, close) ==
  IF i > Len(text) THEN << >>
  ELSE LET lineEnd == FirstIn(text, {"\n"}, i)
           line == Slice(text, i, lineEnd)
           out == IF StartsWith(line, prefix)
                  THEN <<open>> \o Slice(line, Len(prefix), Len(line))
                         \o <<close>>
                  ELSE line
       IN  IF lineEnd >= Len(text) THEN out
           ELSE out \o <<"\n">>
                  \o ReplaceHeaderLines(text, lineEnd + 1, prefix, open, close)

\* One attempt of /\[([^\]]+)\]\(([^)]+)\)/ at offset i:
\* <<offset of "]", offset of ")">>, or << >>.
LinkMatch(text, i) ==
  LET b == FirstIn(text, {"]"}, i + 1)
      p == FirstIn(text, {")"}, b + 2)
  IN  IF /\ CharAt(text, i) = "["
         /\ b > i + 1
         /\ MatchesAt(text, <<"]", "(">>, b)
         /\ p > b + 2
         /\ CharAt(text, p) = ")"
      THEN <<b, p>> ELSE << >>

\* html.replace(/\[([^\]]+)\]\(([^)]+)\)/g, '<a href="$2">$1</a>')
RECURSIVE ReplaceLinks(_, _)
ReplaceLinks(text, i) ==
  LET j == FirstMatch({k \in i..Len(text) - 1 :
                       LinkMatch(text, k) # << >>})
      m == LinkMatch(text, j)
  IN  IF j = -1 THEN Slice(text, i, Len(text))
      ELSE Slice(text, i, j)
             \o <<"<a href=\"">> \o Slice(text, m[1] + 2, m[2]) \o <<"\">">>
             \o Slice(text, j + 1, m[1]) \o <<"</a>">>
             \o ReplaceLinks(text, m[2] + 1)

\* The try block of fallbackProcess: escape, the chain of replacements,
\* the paragraph wrapper, postProcessHtml.
FallbackHtml(markdown, documentDefined) ==
  LET escaped == escapeHtmlUnified(markdown, documentDefined)
      h3 == ReplaceHeaderLines(escaped, 0, <<"#", "#", "#", " ">>,
                                "<h3>", "</h3>")
      h2 == ReplaceHeaderLines(h3, 0, <<"#", "#", " ">>, "<h2>", "</h2>")
      h1 == ReplaceHeaderLines(h2, 0, <<"#", " ">>, "<h1>", "</h1>")
      bold == ReplaceDelimited(h1, 0, <<"*", "*">>, <<"*", "*">>, {"\n"}, 0,
                               <<"<strong>">>, <<"</strong>">>)
      italic == ReplaceDelimited(bold, 0, <<"*">>, <<"*">>, {"\n"}, 0,
                                 <<"<em>">>, <<"</em>">>)
      code == ReplaceDelimited(italic, 0, <<Backtick>>, <<Backtick>>, {"\n"}, 0,
                               <<"<code>">>, <<"</code>">>)
      blocks == ReplaceDelimited(code, 0, <<Backtick, Backtick, Backtick>>,
                                 <<Backtick, Backtick, Backtick>>, {Backtick}, 0,
                                 <<"<pre>", "<code>">>,
                                 <<"</code>", "</pre>">>)
      links == ReplaceLinks(blocks, 0)
      paragraphs == ReplaceAll(links, <<"\n", "\n">>, <<"</p>", "<p>">>)
      breaks == ReplaceAll(paragraphs, <<"\n">>, <<"<br>">>)
  IN  postProcessHtml(<<"<p>">> \o breaks \o <<"</p>">>)

getEmptyStats ==
  [inlineMath |-> 0, displayMath |-> 0, codeBlocks |-> 0, tables |-> 0,
   footnotes |-> 0, processingTime |-> 0]

UsingBasicFallback ==
  <<"U", "s", "i", "n", "g", " ", "b", "a", "s", "i", "c", " ",
    "f", "a", "l", "l", "b", "a", "c", "k", " ",
    "p", "r", "o", "c", "e", "s", "s", "i", "n", "g">>

ProcessingFailed ==
  <<"P", "r", "o", "c", "e", "s", "s", "i", "n", "g", " ",
    "f", "a", "i", "l", "e", "d">>

\* fallbackProcess: nothing in its try block throws on a string, so its
\* catch block is never entered.
fallbackProcess(markdown, documentDefined) ==
  [html      |-> FallbackHtml(markdown, documentDefined),
   stats     |-> getEmptyStats,
   success   |-> FALSE,
   hasError  |-> TRUE,
   error     |-> UsingBasicFallback,
   processor |-> "fallback"]

calculateStats(markdown, html, processingTime) ==
  [inlineMath  |-> CountDelimited(markdown, 0, <<"$">>, <<"$">>,
                                  {"$", "\n"}, 1),
   displayMath |-> CountDelimited(markdown, 0, <<"$", "$">>, <<"$", "$">>,
                                  {}, 1),
   codeBlocks  |-> CountDelimited(markdown, 0, <<Backtick, Backtick, Backtick>>,
                                  <<Backtick, Backtick, Backtick>>, {}, 0),
   tables      |-> Cardinality({k \in 1..Len(html) : html[k] = "<table>"}),
   footnotes   |-> 0,
   processingTime |-> processingTime]

\* ------------------------------------------------------------------------
\* State
\* ------------------------------------------------------------------------

VARIABLES
  \* KaTeXMathRenderer: the process-wide engine singleton and its environment
  katexLoaded,      \* private static katexLoaded
  katex,            \* private static katex (NULL or the loaded module)
  cssLinked,        \* whether document.head holds the KaTeX stylesheet link
  hasWindow,        \* typeof window !== 'undefined'
  hasDocument,      \* typeof document !== 'undefined'
  importsStarted,   \* number of import('katex') calls issued so far
  katexAssignments, \* number of assignments to this.katex so far
  calls,            \* per caller: the renderer call in progress
  callsMade,        \* number of renderer calls started so far
  \* MathTextProcessor.parse called on a text
  parseText,        \* the argument
  parseState,       \* "input", "parsed" or "reconstructed"
  expressions,      \* what extractMathExpressions returned
  substitution,     \* what replaceMathWithPlaceholders returned
  reconstruction,   \* one reconstructText call: its result set and result
  parsed,           \* what parse returned
  \* UnifiedMarkdownProcessor: the singleton and one processMarkdown call
  isInitialized,    \* private isInitialized, as the constructor left it
  markdownValue,    \* the argument of the call
  processPc,        \* "idle", "processing" (at the await) or "settled"
  processStatus,    \* how the returned promise settled
  result,           \* the ProcessingResult it resolved to
  validation,       \* one validateMarkdown call: its argument and result
  postProcessing,   \* one postProcessHtml call: its argument and result
  \* MathMarkdownRenderer: the component's state and one processMathMarkdown
  markdownText,     \* the markdownText prop
  html,             \* useState('')
  isProcessing,     \* useState(false)
  error,            \* useState(null): whether set, and the message
  mathStats,        \* useState({ inline: 0, display: 0 })
  completions,      \* the onRenderComplete calls made, in order
  renderPc,         \* where processMathMarkdown stands
  pending,          \* its locals across the awaits
  runs,             \* the processMathMarkdown calls of a re-rendered component
  boldUnderscores   \* whether showdown turns __x__ into strong emphasis

katexVars ==
  <<katexLoaded, katex, cssLinked, hasWindow, hasDocument, importsStarted,
    katexAssignments, calls, callsMade>>

parseVars ==
  <<parseText, parseState, expressions, substitution, parsed, reconstruction>>

unifiedVars ==
  <<isInitialized, markdownValue, processPc, processStatus, result,
    validation, postProcessing>>

rendererVars ==
  <<markdownText, html, isProcessing, error, mathStats, completions,
    renderPc, pending, runs, boldUnderscores>>

vars == <<katexVars, parseVars, unifiedVars, rendererVars>>

NULL == "null"

\* ------------------------------------------------------------------------
\* KaTeXMathRenderer: markup
\* ------------------------------------------------------------------------

\* div.textContent = text; return div.innerHTML: the DOM serialises a text
\* node with "&", "<" and ">" replaced by entities.
escapeHtml(text) == EscapeFrom(text, {"&", "<", ">"}, 0)

\* `<span class="${containerClass}"`, the opening of every container.
SpanClass(containerClass) ==
  CASE containerClass = "katex-display-container" ->
         "<span class=\"katex-display-container\""
    [] containerClass = "katex-inline-container" ->
         "<span class=\"katex-inline-container\""
    [] containerClass = "math-fallback-display" ->
         "<span class=\"math-fallback-display\""
    [] containerClass = "math-fallback-inline" ->
         "<span class=\"math-fallback-inline\""
    [] containerClass = "math-error-display" ->
         "<span class=\"math-error-display\""
    [] OTHER -> "<span class=\"math-error-inline\""

\* Mutation: the neutral fallback is given the error styling.
createFallbackHTML_errorStyled(mathContent, isDisplayMode) ==
  <<SpanClass(IF isDisplayMode THEN "math-error-display"
                               ELSE "math-error-inline"),
    " title=\"Math formula (KaTeX not loaded)\">">>
    \o (IF isDisplayMode THEN <<"$", "$">> ELSE <<"$">>)
    \o escapeHtml(mathContent)
    \o (IF isDisplayMode THEN <<"$", "$">> ELSE <<"$">>) \o <<"</span>">>

createFallbackHTML(mathContent, isDisplayMode) ==
  LET escapedContent == escapeHtml(mathContent)
      containerClass == IF isDisplayMode THEN "math-fallback-display"
                                         ELSE "math-fallback-inline"
      mathSymbol == IF isDisplayMode THEN <<"$", "$">> ELSE <<"$">>
  IN  <<SpanClass(containerClass),
        " title=\"Math formula (KaTeX not loaded)\">">>
        \o mathSymbol \o escapedContent \o mathSymbol \o <<"</span>">>

RenderingFailed ==
  <<"R", "e", "n", "d", "e", "r", "i", "n", "g", " ",
    "f", "a", "i", "l", "e", "d">>

\* `message` is error?.message, the empty text when there is none.
createErrorHTML(mathContent, isDisplayMode, message) ==
  LET containerClass == IF isDisplayMode THEN "math-error-display"
                                         ELSE "math-error-inline"
      errorMessage == IF message = << >> THEN RenderingFailed ELSE message
  IN  <<SpanClass(containerClass), " title=\"Math error: ">>
        \o escapeHtml(errorMessage) \o <<"\">">>
        \o escapeHtml(mathContent) \o <<"</span>">>

\* katex.renderToString(mathContent, {displayMode, ...}) when it returns:
\* KaTeX's own markup around the typeset expression.
renderToString(mathContent, isDisplayMode) ==
  <<IF isDisplayMode THEN "<span class=\"katex-display\">"
                     ELSE "<span class=\"katex\">">>
    \o escapeHtml(mathContent) \o <<"</span>">>

\* The success branch of renderMath.
WrapRendered(rendered, isDisplayMode) ==
  LET containerClass == IF isDisplayMode THEN "katex-display-container"
                                         ELSE "katex-inline-container"
  IN  <<SpanClass(containerClass), ">">> \o rendered \o <<"</span>">>

\* ------------------------------------------------------------------------
\* KaTeXMathRenderer: calls.  Each action is one run of JavaScript between
\* two awaits; callers interleave only at awaits.
\* ------------------------------------------------------------------------

NumCallers == 2

MaxCalls == 3

MaxParts == 2

Callers == 1..NumCallers

KATEX == "katexModule"

\* The expression a direct renderMath call is given in each mode.
MathContent(isDisplayMode) ==
  IF isDisplayMode THEN <<"x">> ELSE <<"a", "<", "b">>

\* The MathChunk list a batch is called with: indexes 0..n-1 in order, as
\* replaceMathWithPlaceholders builds it.
BatchParts(n, firstDisplay) ==
  [k \in 1..n |->
     [content       |-> IF k % 2 = 1 THEN <<"x">> ELSE <<"a", "<", "b">>,
      type          |-> IF (k % 2 = 1) = firstDisplay THEN "display"
                                                     ELSE "inline",
      index         |-> k - 1,
      originalMatch |-> << >>]]

\* What katex.renderToString does on one call: return, or throw an error.
RenderOutcomes ==
  {[throws |-> FALSE, message |-> << >>],
   [throws |-> TRUE,  message |-> <<"b", "a", "d">>]}

IdleCall ==
  [op |-> "none", content |-> << >>, display |-> FALSE, parts |-> << >>,
   pc |-> "idle", init |-> FALSE, status |-> "none", value |-> << >>,
   available |-> FALSE, path |-> "none", kids |-> << >>, results |-> << >>]

\* initializeKaTeX up to its first await: the early return, the import it
\* starts, or the final `return false` where there is no window.
InitializeSync ==
  IF katexLoaded /\ katex # NULL
  THEN [pc |-> "afterInit", init |-> TRUE, imports |-> 0]
  ELSE IF hasWindow
  THEN [pc |-> "importing", init |-> FALSE, imports |-> 1]
  ELSE [pc |-> "afterInit", init |-> FALSE, imports |-> 0]

\* initializeKaTeX after `await import('katex')`: the rest of the try block
\* when the import resolved, the catch block when it rejected.
InitializeResume(ok) ==
  IF ok
  THEN /\ katex' = KATEX
       /\ katexAssignments' = katexAssignments + 1
       /\ cssLinked' = (cssLinked \/ hasDocument)
       /\ katexLoaded' = TRUE
  ELSE /\ katexLoaded' = FALSE
       /\ UNCHANGED <<katex, katexAssignments, cssLinked>>

\* renderMath after `await this.initializeKaTeX()`.  escapeHtml reads the
\* global `document`: where there is none the call throws a ReferenceError.
RenderMathResume(initialized, mathContent, isDisplayMode, outcome) ==
  IF ~initialized \/ katex = NULL
  THEN IF hasDocument
       THEN [status |-> "resolved", path |-> "unavailable",
             value |-> createFallbackHTML(mathContent, isDisplayMode)]
       ELSE [status |-> "rejected", path |-> "unavailable", value |-> << >>]
  ELSE IF ~outcome.throws
  THEN [status |-> "resolved", path |-> "rendered",
        value |-> WrapRendered(renderToString(mathContent, isDisplayMode),
                               isDisplayMode)]
  ELSE IF hasDocument
  THEN [status |-> "resolved", path |-> "threw",
        value |-> createErrorHTML(mathContent, isDisplayMode,
                                  outcome.message)]
  ELSE [status |-> "rejected", path |-> "threw", value |-> << >>]

\* results.set(index, markup)
MapSet(map, index, markup) ==
  [k \in (DOMAIN map) \cup {index} |-> IF k = index THEN markup ELSE map[k]]

EmptyMap == [k \in {} |-> << >>]

\* The `!initialized` branch of renderMathBatch: mathParts.forEach(...)
RECURSIVE FallbackAll(_, _)
FallbackAll(mathParts, k) ==
  IF k > Len(mathParts) THEN EmptyMap
  ELSE MapSet(FallbackAll(mathParts, k + 1), mathParts[k].index,
              createFallbackHTML(mathParts[k].content,
                                 mathParts[k].type = "display"))

KidsSettled(c) ==
  \A k \in 1..Len(calls[c].kids) :
     calls[c].kids[k].pc \in {"resolved", "rejected"}

\* A caller invokes renderMath, renderMathBatch or isKaTeXAvailable.
StartCall(c) ==
  /\ calls[c].pc \in {"idle", "settled"}
  /\ KidsSettled(c)
  /\ callsMade < MaxCalls
  /\ callsMade' = callsMade + 1
  /\ \E op \in {"renderMath", "renderMathBatch", "isKaTeXAvailable"},
        display \in BOOLEAN, n \in 0..MaxParts :
       /\ op = "isKaTeXAvailable" => ~display
       /\ op # "renderMathBatch" => n = 0
       /\ IF op = "renderMathBatch" /\ n = 0
          THEN \* if (mathParts.length === 0) return results;
               /\ calls' = [calls EXCEPT ![c] =
                     [IdleCall EXCEPT !.op = op, !.pc = "settled",
                                      !.status = "resolved",
                                      !.results = EmptyMap]]
               /\ UNCHANGED importsStarted
          ELSE /\ calls' = [calls EXCEPT ![c] =
                     [IdleCall EXCEPT
                        !.op = op,
                        !.content = IF op = "renderMath"
                                    THEN MathContent(display) ELSE << >>,
                        !.display = (op = "renderMath" /\ display),
                        !.parts = IF op = "renderMathBatch"
                                  THEN BatchParts(n, display) ELSE << >>,
                        !.pc = InitializeSync.pc,
                        !.init = InitializeSync.init]]
               /\ importsStarted' = importsStarted + InitializeSync.imports
  /\ UNCHANGED <<katexLoaded, katex, cssLinked, hasWindow, hasDocument,
                 katexAssignments, parseVars, unifiedVars, rendererVars>>

\* The import a caller's initializeKaTeX awaits settles.
ImportSettles(c) ==
  /\ calls[c].pc = "importing"
  /\ \E ok \in BOOLEAN :
       /\ InitializeResume(ok)
       /\ calls' = [calls EXCEPT ![c].pc = "afterInit", ![c].init = ok]
  /\ UNCHANGED <<hasWindow, hasDocument, importsStarted, callsMade,
                 parseVars, unifiedVars, rendererVars>>

\* isKaTeXAvailable after its await.
AvailableResume(c) ==
  /\ calls[c].pc = "afterInit"
  /\ calls[c].op = "isKaTeXAvailable"
  /\ calls' = [calls EXCEPT ![c].pc = "settled", ![c].status = "resolved",
                             ![c].available = calls[c].init]
  /\ UNCHANGED <<katexLoaded, katex, cssLinked, hasWindow, hasDocument,
                 importsStarted, katexAssignments, callsMade, parseVars, unifiedVars, rendererVars>>

\* renderMath, called directly, after its await.
RenderResume(c) ==
  /\ calls[c].pc = "afterInit"
  /\ calls[c].op = "renderMath"
  /\ \E outcome \in RenderOutcomes :
       LET r == RenderMathResume(calls[c].init, calls[c].content,
                                 calls[c].display, outcome)
       IN  calls' = [calls EXCEPT ![c].pc = "settled",
                                  ![c].status = r.status,
                                  ![c].value = r.value,
                                  ![c].path = r.path]
  /\ UNCHANGED <<katexLoaded, katex, cssLinked, hasWindow, hasDocument,
                 importsStarted, katexAssignments, callsMade, parseVars, unifiedVars, rendererVars>>

\* renderMathBatch after its await: the fallback for every part, or
\* mathParts.map(async ...), which runs each renderMath up to its await.
BatchResume(c) ==
  /\ calls[c].pc = "afterInit"
  /\ calls[c].op = "renderMathBatch"
  /\ IF ~calls[c].init
     THEN /\ calls' = [calls EXCEPT
                ![c].pc = "settled",
                ![c].status = IF hasDocument THEN "resolved" ELSE "rejected",
                ![c].path = "unavailable",
                ![c].results = IF hasDocument
                               THEN FallbackAll(calls[c].parts, 1)
                               ELSE EmptyMap]
          /\ UNCHANGED importsStarted
     ELSE /\ calls' = [calls EXCEPT
                ![c].pc = "awaitAll",
                ![c].results = EmptyMap,
                ![c].kids = [k \in 1..Len(calls[c].parts) |->
                               [pc   |-> InitializeSync.pc,
                                init |-> InitializeSync.init,
                                path |-> "none"]]]
          /\ importsStarted' =
               importsStarted + Len(calls[c].parts) * InitializeSync.imports
  /\ UNCHANGED <<katexLoaded, katex, cssLinked, hasWindow, hasDocument,
                 katexAssignments, callsMade, parseVars, unifiedVars, rendererVars>>

\* The import awaited by the renderMath of one part of a batch settles.
KidImportSettles(c, k) ==
  /\ k \in 1..Len(calls[c].kids)
  /\ calls[c].kids[k].pc = "importing"
  /\ \E ok \in BOOLEAN :
       /\ InitializeResume(ok)
       /\ calls' = [calls EXCEPT ![c].kids[k].pc = "afterInit",
                                  ![c].kids[k].init = ok]
  /\ UNCHANGED <<hasWindow, hasDocument, importsStarted, callsMade,
                 parseVars, unifiedVars, rendererVars>>

\* One part of a batch: renderMath after its await, then the mapper's
\* results.set, or its catch block when renderMath rejected.
KidResume(c, k) ==
  /\ k \in 1..Len(calls[c].kids)
  /\ calls[c].kids[k].pc = "afterInit"
  /\ \E outcome \in RenderOutcomes :
       LET part == calls[c].parts[k]
           r == RenderMathResume(calls[c].kids[k].init, part.content,
                                 part.type = "display", outcome)
       IN  IF r.status = "resolved"
           THEN calls' = [calls EXCEPT
                  ![c].kids[k].pc = "resolved",
                  ![c].kids[k].path = r.path,
                  ![c].results = MapSet(@, part.index, r.value)]
           ELSE IF hasDocument
           THEN calls' = [calls EXCEPT
                  ![c].kids[k].pc = "resolved",
                  ![c].kids[k].path = "caught",
                  ![c].results =
                     MapSet(@, part.index,
                            createErrorHTML(part.content,
                                            part.type = "display", << >>))]
           ELSE calls' = [calls EXCEPT ![c].kids[k].pc = "rejected",
                                       ![c].kids[k].path = r.path]
  /\ UNCHANGED <<katexLoaded, katex, cssLinked, hasWindow, hasDocument,
                 importsStarted, katexAssignments, callsMade, parseVars, unifiedVars, rendererVars>>

\* await Promise.all(renderPromises): rejects with the first mapper that
\* rejects, resolves once every mapper has resolved.
BatchSettles(c) ==
  /\ calls[c].pc = "awaitAll"
  /\ LET rejected == \E k \in 1..Len(calls[c].kids) :
                         calls[c].kids[k].pc = "rejected"
         resolved == \A k \in 1..Len(calls[c].kids) :
                         calls[c].kids[k].pc = "resolved"
     IN  /\ rejected \/ resolved
         /\ calls' = [calls EXCEPT
               ![c].pc = "settled",
               ![c].status = IF rejected THEN "rejected" ELSE "resolved"]
  /\ UNCHANGED <<katexLoaded, katex, cssLinked, hasWindow, hasDocument,
                 importsStarted, katexAssignments, callsMade, parseVars, unifiedVars, rendererVars>>

\* ------------------------------------------------------------------------
\* MathTextProcessor.parse applied to a text
\* ------------------------------------------------------------------------

MaxFrags == 6

\* The pieces input texts are built from: both delimiters, an operator, the
\* escape character (alone it fails every heuristic), a newline (which is
\* also the whitespace that trim removes) and the text every placeholder
\* begins with, which alone is no placeholder.
ScanFragments ==
  {<<"$">>, <<"$", "$">>, <<"+">>, <<"\\">>, <<"\n">>,
   MATH_PLACEHOLDER_PREFIX}

RECURSIVE TextsOf(_, _)
\* Every concatenation of at most n fragments.
TextsOf(fragments, n) ==
  IF n = 0 THEN {<< >>}
  ELSE LET shorter == TextsOf(fragments, n - 1)
       IN  shorter \cup {f \o t : f \in fragments, t \in shorter}

NoParse == [textParts |-> << >>, mathParts |-> << >>, hasValidMath |-> FALSE]

NoSubstitution == [processedText |-> << >>, mathParts |-> << >>]

ParseCall ==
  /\ parseState = "input"
  /\ parseState' = "parsed"
  /\ expressions' = extractMathExpressions(parseText)
  /\ substitution' =
       IF Len(extractMathExpressions(parseText)) = 0 THEN NoSubstitution
       ELSE replaceMathWithPlaceholders(parseText,
                                        extractMathExpressions(parseText))
  /\ parsed' = parse(parseText)
  /\ UNCHANGED <<parseText, reconstruction, katexVars, unifiedVars,
                 rendererVars>>

\* ------------------------------------------------------------------------
\* UnifiedMarkdownProcessor.processMarkdown: one call
\* ------------------------------------------------------------------------

MaxMarkdownFrags == 4

MaxElapsedMs == 1

\* The pieces markdown arguments are built from: what the fallback rules
\* look for, characters escapeHtml rewrites, both math delimiters, plain
\* text.
MarkdownFragments ==
  {<<"#", " ">>, <<"*", "*">>, <<"*">>, <<Backtick>>, <<"x">>, <<"\n">>,
   <<"<">>, <<"'">>, <<"$">>, <<"$", "$">>}

\* What a caller can pass: a string (the empty one included), or, the
\* parameter type being unchecked at run time, undefined or a number.
MarkdownValues ==
  {[type |-> "string", text |-> t] :
     t \in TextsOf(MarkdownFragments, MaxMarkdownFrags)}
    \cup {[type |-> "undefined", text |-> << >>],
          [type |-> "number", text |-> << >>]}

\* Mutation: only the type is tested, the empty string passes.
IsBlankArgument_typeOnly(value) == value.type # "string"

\* !markdown || typeof markdown !== 'string'
IsBlankArgument(value) == value.type # "string" \/ value.text = << >>

\* What result.toString() can hold after processor.process resolved: markup
\* of the unified pipeline, whose code is outside this repository.
UnifiedOutputs ==
  {<<"<p>", "x", "</p>">>,
   <<"<h1>", "x", "</h1>", "\n", "<table>", "<tr>", "<td>", "x", "</td>",
     "</tr>", "</table>">>,
   <<"<p>", "x", "</p>", "\n", "\n", "\n", "<p>", "x", "</p>", "x">>}

\* What processor.process can reject with: an Error carrying a message, an
\* Error constructed without one (its message is the empty string), or a
\* value that is not an Error.
ThrownValues ==
  {[isError |-> TRUE,  message |-> <<"b", "a", "d">>],
   [isError |-> TRUE,  message |-> << >>],
   [isError |-> FALSE, message |-> << >>]}

NoResult ==
  [html |-> << >>, stats |-> getEmptyStats, success |-> FALSE,
   hasError |-> FALSE, error |-> << >>, processor |-> "none"]

\* The return value for a blank argument.
EmptyResult ==
  [html |-> << >>, stats |-> getEmptyStats, success |-> TRUE,
   hasError |-> FALSE, error |-> << >>, processor |-> "unified"]

\* The rest of the try block once processor.process has resolved.
processMarkdownResolved(markdown, output, elapsed) ==
  LET processedHtml == postProcessHtml(output)
  IN  [status |-> "fulfilled",
       value  |-> [html |-> processedHtml,
                   stats |-> calculateStats(markdown, processedHtml, elapsed),
                   success |-> TRUE, hasError |-> FALSE, error |-> << >>,
                   processor |-> "unified"]]

\* The catch block of processMarkdown.
processMarkdownCaught(markdown, thrown, documentDefined) ==
  [status |-> "fulfilled",
   value  |-> [fallbackProcess(markdown, documentDefined)
                 EXCEPT !.error = IF thrown.isError THEN thrown.message
                                  ELSE ProcessingFailed]]

\* processMarkdown up to its await: the two early returns, or the call of
\* processor.process.
ProcessMarkdownCall ==
  /\ processPc = "idle"
  /\ \E value \in MarkdownValues :
       /\ markdownValue' = value
       /\ IF IsBlankArgument(value)
          THEN /\ processPc' = "settled"
               /\ processStatus' = "fulfilled"
               /\ result' = EmptyResult
          ELSE IF ~isInitialized
          THEN /\ processPc' = "settled"
               /\ processStatus' = "fulfilled"
               /\ result' = fallbackProcess(value.text, hasDocument)
          ELSE /\ processPc' = "processing"
               /\ UNCHANGED <<processStatus, result>>
  /\ UNCHANGED <<isInitialized, validation, postProcessing, katexVars,
                 parseVars, rendererVars>>

\* processor.process resolves: post-processing, statistics, the result.
ProcessResolves ==
  /\ processPc = "processing"
  /\ \E output \in UnifiedOutputs, elapsed \in 0..MaxElapsedMs :
       LET settled == processMarkdownResolved(markdownValue.text, output,
                                              elapsed)
       IN  /\ processStatus' = settled.status
           /\ result' = settled.value
  /\ processPc' = "settled"
  /\ UNCHANGED <<isInitialized, markdownValue, validation, postProcessing,
                 katexVars, parseVars, rendererVars>>

\* processor.process rejects: the catch block.
ProcessRejects ==
  /\ processPc = "processing"
  /\ \E thrown \in ThrownValues :
       LET settled == processMarkdownCaught(markdownValue.text, thrown,
                                            hasDocument)
       IN  /\ processStatus' = settled.status
           /\ result' = settled.value
  /\ processPc' = "settled"
  /\ UNCHANGED <<isInitialized, markdownValue, validation, postProcessing,
                 katexVars, parseVars, rendererVars>>

\* ------------------------------------------------------------------------
\* UnifiedMarkdownProcessor.validateMarkdown: one call
\* ------------------------------------------------------------------------

MaxValidateFrags == 5

\* The pieces the validated texts are built from: the delimiters the three
\* checks count, a single backtick and a plain letter.
ValidateFragments ==
  {<<"$">>, <<"$", "$">>, <<Backtick, Backtick, Backtick>>, <<Backtick>>,
   <<"x">>}

UnmatchedMathDelimiters == "Unmatched math delimiters ($)"

InvalidMathDelimiterPattern == "Invalid math delimiter pattern ($$$$)"

\* 'Unclosed code block (...)', the fence in parentheses left out.
UnclosedCodeBlock == "Unclosed code block"

NoValidation ==
  [called |-> FALSE, markdown |-> << >>, isValid |-> TRUE, errors |-> << >>]

\* Mutation: the test for four dollars in a row is dropped.
validateMarkdown_withoutPattern(markdown) ==
  LET errors ==
        (IF CountMatches(markdown, <<"$">>) % 2 # 0
         THEN <<UnmatchedMathDelimiters>> ELSE << >>)
          \o (IF CountMatches(markdown, <<Backtick, Backtick, Backtick>>) % 2 # 0
              THEN <<UnclosedCodeBlock>> ELSE << >>)
  IN  [isValid |-> Len(errors) = 0, errors |-> errors]

validateMarkdown(markdown) ==
  LET dollarSigns == CountMatches(markdown, <<"$">>)
      codeBlockMatches ==
        CountMatches(markdown, <<Backtick, Backtick, Backtick>>)
      errors ==
        (IF dollarSigns % 2 # 0 THEN <<UnmatchedMathDelimiters>> ELSE << >>)
          \o (IF Includes(markdown, <<"$", "$", "$", "$">>)
              THEN <<InvalidMathDelimiterPattern>> ELSE << >>)
          \o (IF codeBlockMatches % 2 # 0
              THEN <<UnclosedCodeBlock>> ELSE << >>)
  IN  [isValid |-> Len(errors) = 0, errors |-> errors]

\* A caller validates a text.  The method reads its argument only.
ValidateMarkdownCall ==
  /\ ~validation.called
  /\ \E markdown \in TextsOf(ValidateFragments, MaxValidateFrags) :
       validation' = [called   |-> TRUE,
                      markdown |-> markdown,
                      isValid  |-> validateMarkdown(markdown).isValid,
                      errors   |-> validateMarkdown(markdown).errors]
  /\ UNCHANGED <<isInitialized, markdownValue, processPc, processStatus,
                 result, postProcessing, katexVars, parseVars, rendererVars>>

\* ------------------------------------------------------------------------
\* UnifiedMarkdownProcessor.postProcessHtml: one call
\* ------------------------------------------------------------------------

MaxHtmlFrags == 4

\* The pieces the markup handed to postProcessHtml is built from (raw HTML
\* in the markdown reaches it as written): the tags around a code block and
\* around a table, the wrapper the method itself adds, the end of a
\* paragraph, a newline, a run of three newlines and a letter.
HtmlFragments ==
  {<<"<pre>", "<code>">>, <<"</code>", "</pre>">>, <<"<table>">>,
   <<"</table>">>, <<"<div class=\"table-wrapper\">">>, <<"</div>">>,
   <<"</p>">>, <<"\n">>, <<"\n", "\n", "\n">>, <<"x">>}

NoPostProcessing ==
  [called |-> FALSE, html |-> << >>, wrapped |-> << >>, processed |-> << >>]

\* postProcessHtml called on a markup: what wrapTablesInScrollableDiv
\* returned to it, and what it returned.
PostProcessHtmlCall ==
  /\ ~postProcessing.called
  /\ \E markup \in TextsOf(HtmlFragments, MaxHtmlFrags) :
       postProcessing' = [called    |-> TRUE,
                          html      |-> markup,
                          wrapped   |-> wrapTablesInScrollableDiv(markup),
                          processed |-> postProcessHtml(markup)]
  /\ UNCHANGED <<isInitialized, markdownValue, processPc, processStatus,
                 result, validation, katexVars, parseVars, rendererVars>>

\* ------------------------------------------------------------------------
\* MathMarkdownRenderer.processMathMarkdown: one run, in a browser
\* ------------------------------------------------------------------------

MaxRenderFrags == 4

\* The pieces markdownText is built from: an escaped dollar, a delimiter,
\* an expression the heuristics accept, a plain letter, the text of the
\* sentinel itself, the text of a placeholder, and a whole inline and a
\* whole display expression.
RenderFragments ==
  {<<"\\", "$">>, <<"$">>, <<"x", "+", "x">>, <<"a">>, ESCAPED_DOLLAR,
   INLINE_PLACEHOLDER \o <<"0", "_", "_">>,
   <<"$", "x", "+", "x", "$">>, <<"$", "$", "a", "$", "$">>}

\* showdown's rule for __word__ where it applies: strong emphasis.
StrongEmphasis(text) ==
  ReplaceDelimited(text, 0, <<"_", "_">>, <<"_", "_">>, Whitespace, 1,
                   <<"<strong>">>, <<"</strong>">>)

\* converter.makeHtml(text), showdown being outside this repository: a
\* paragraph around the trimmed text, nothing for a blank one; whether
\* double underscores become strong emphasis is left open (bold).
makeHtml(text, bold) ==
  LET body == Trim(IF bold THEN StrongEmphasis(text) ELSE text)
  IN  IF body = << >> THEN << >> ELSE <<"<p>">> \o body \o <<"</p>">>

\* processRegularMarkdown: the promise fulfilled with makeHtml's markup, or
\* rejected with what the converter threw.
processRegularMarkdown(text, bold, throws) ==
  [rejected |-> throws,
   html     |-> IF throws THEN << >> ELSE makeHtml(text, bold)]

\* parts.join('')
RECURSIVE Join(_)
Join(parts) ==
  IF parts = << >> THEN << >> ELSE Head(parts) \o Join(Tail(parts))

\* The elements that open a span whose class begins with "katex-".
KatexSpanOpeners ==
  {"<span class=\"katex-display-container\"",
   "<span class=\"katex-inline-container\"",
   "<span class=\"katex-display\">"}

\* The elements that hold a ">".
ClosingAngleTokens ==
  {">", "\">", " title=\"Math formula (KaTeX not loaded)\">",
   "<span class=\"katex-display\">", "<span class=\"katex\">", "</span>",
   "<p>", "</p>", "<strong>", "</strong>", "<br>",
   "<div class=\"fallback-content\">", "</div>"}

\* One attempt of /<span class="katex-[^>]*>.*?<\/span>/ at offset i: the
\* end offset of the match, or -1.
KatexSpanMatchEnd(text, i) ==
  LET gt == FirstIn(text, ClosingAngleTokens, i)
      close == FindClose(text, gt + 1, <<"</span>">>, {"\n"})
  IN  IF CharAt(text, i) \in KatexSpanOpeners /\ gt < Len(text) /\ close # -1
      THEN close + 1 ELSE -1

\* text.split(/(<span class="katex-[^>]*>.*?<\/span>)/g): the pieces
\* between the matches and, the pattern being one capturing group, the
\* matches themselves.  `from` is where the piece being collected began.
RECURSIVE SplitKatexFrom(_, _)
SplitKatexFrom(text, i) ==
  LET j == FirstMatch({k \in i..Len(text) - 1 :
                       KatexSpanMatchEnd(text, k) # -1})
      e == KatexSpanMatchEnd(text, j)
  IN  IF j = -1 THEN <<Slice(text, i, Len(text))>>
      ELSE <<Slice(text, i, j), Slice(text, j, e)>>
             \o SplitKatexFrom(text, e)

\* part.includes('katex-') || part.includes('math-fallback') ||
\* part.includes('math-error')
IsRenderedMath(part) ==
  \/ \E k \in 1..Len(part) :
        part[k] \in KatexSpanOpeners
                     \cup {SpanClass("math-fallback-display"),
                           SpanClass("math-fallback-inline"),
                           SpanClass("math-error-display"),
                           SpanClass("math-error-inline")}
  \/ Includes(part, <<"k", "a", "t", "e", "x", "-">>)
  \/ Includes(part, <<"m", "a", "t", "h", "-", "f", "a", "l", "l", "b",
                      "a", "c", "k">>)
  \/ Includes(part, <<"m", "a", "t", "h", "-", "e", "r", "r", "o", "r">>)

RECURSIVE ProcessParts(_, _)
ProcessParts(parts, bold) ==
  IF parts = << >> THEN << >>
  ELSE (IF IsRenderedMath(Head(parts)) THEN Head(parts)
        ELSE makeHtml(Head(parts), bold)) \o ProcessParts(Tail(parts), bold)

\* Whether processReconstructedMarkdown ends in its catch block: the
\* converter throws and there is a part that is sent through it.
ReconstructedCaught(text, throws) ==
  LET parts == SplitKatexFrom(text, 0)
  IN  throws /\ \E k \in 1..Len(parts) : ~IsRenderedMath(parts[k])

\* processReconstructedMarkdown: the math containers kept, the text between
\* them converted; the text itself when a conversion throws.
processReconstructedMarkdown(text, bold, throws) ==
  IF ReconstructedCaught(text, throws) THEN text
  ELSE ProcessParts(SplitKatexFrom(text, 0), bold)

\* How a batch goes in a browser: the engine is not available, or it is
\* and typesets every expression, or it throws on every expression.
BatchPaths == {"unavailable", "rendered", "threw"}

\* The markup renderMath resolves to for one part of a batch.
BatchMarkup(part, path) ==
  LET display == part.type = "display"
  IN  CASE path = "unavailable" ->
             createFallbackHTML(part.content, display)
        [] path = "rendered" ->
             WrapRendered(renderToString(part.content, display), display)
        [] OTHER ->
             createErrorHTML(part.content, display, <<"b", "a", "d">>)

\* The orders in which the renders of n parts can complete.
CompletionOrders(n) ==
  {order \in [1..n -> 1..n] : \A k \in 1..n : \E m \in 1..n : order[m] = k}

\* What renderMathBatch resolves to in a browser, every part on one path:
\* results.set(part.index, html) for the parts in the order their renders
\* complete, from the k-th completion on.
RECURSIVE RenderedBatch(_, _, _, _)
RenderedBatch(mathParts, path, order, k) ==
  IF k > Len(mathParts) THEN EmptyMap
  ELSE LET part  == mathParts[order[k]]
           later == RenderedBatch(mathParts, path, order, k + 1)
       IN  \* a later results.set for the same index replaces this one
           IF part.index \in DOMAIN later THEN later
           ELSE MapSet(later, part.index, BatchMarkup(part, path))

\* The final fallback: escapeHtml(markdownText).replace(/\n/g, '<br>') in
\* the fallback-content block.
EscapedFallback(text) ==
  <<"<div class=\"fallback-content\">">>
    \o ReplaceAll(escapeHtml(text), <<"\n">>, <<"<br>">>) \o <<"</div>">>

NoError == [set |-> FALSE, message |-> << >>]

NoPending ==
  [parsed |-> NoParse, regular |-> processRegularMarkdown(<< >>, FALSE, TRUE),
   renderedMath |-> EmptyMap, processedHtml |-> << >>, caught |-> FALSE]

\* The catch block of processMathMarkdown up to its await: the error is
\* recorded and the raw text is sent through the converter.
CatchAndFallBack(message) ==
  /\ error' = [set |-> TRUE, message |-> message]
  /\ \E throws \in BOOLEAN :
       pending' = [pending EXCEPT
                     !.regular = processRegularMarkdown(markdownText,
                                                        boldUnderscores,
                                                        throws)]
  /\ renderPc' = "fallback"

\* processMathMarkdown from the effect to its first await.
ProcessMathMarkdown ==
  /\ renderPc = "idle"
  /\ IF markdownText = << >>
     THEN /\ html' = << >>
          /\ error' = NoError
          /\ mathStats' = [inline |-> 0, display |-> 0]
          /\ renderPc' = "done"
          /\ UNCHANGED <<isProcessing, pending>>
     ELSE LET preprocessedText == preprocessText(markdownText)
              parsedContent == parse(preprocessedText)
          IN  /\ isProcessing' = TRUE
              /\ error' = NoError
              /\ \E throws \in BOOLEAN :
                   pending' =
                     [pending EXCEPT
                        !.parsed = parsedContent,
                        !.regular =
                          processRegularMarkdown(
                            IF parsedContent.hasValidMath
                            THEN Join(parsedContent.textParts)
                            ELSE preprocessedText,
                            boldUnderscores, throws)]
              /\ renderPc' = IF parsedContent.hasValidMath THEN "parallel"
                                                           ELSE "regular"
              /\ UNCHANGED <<html, mathStats>>
  /\ UNCHANGED <<markdownText, completions, runs, boldUnderscores,
                 katexVars, parseVars, unifiedVars>>

\* The branch without math resumes after processRegularMarkdown.
RegularResume ==
  /\ renderPc = "regular"
  /\ IF pending.regular.rejected
     THEN /\ CatchAndFallBack(<<"b", "a", "d">>)
          /\ UNCHANGED <<html, isProcessing, mathStats, completions>>
     ELSE /\ html' = postprocessText(pending.regular.html)
          /\ mathStats' = [inline |-> 0, display |-> 0]
          /\ completions' = Append(completions,
                                   [success |-> TRUE, mathCount |-> 0])
          /\ isProcessing' = FALSE
          /\ renderPc' = "done"
          /\ UNCHANGED <<error, pending>>
  /\ UNCHANGED <<markdownText, runs, boldUnderscores, katexVars, parseVars,
                 unifiedVars>>

\* The branch with math resumes after Promise.all: reconstructText, then
\* processReconstructedMarkdown up to its await.
ParallelResume ==
  /\ renderPc = "parallel"
  /\ IF pending.regular.rejected
     THEN CatchAndFallBack(<<"b", "a", "d">>)
     ELSE /\ \E path \in BatchPaths, throws \in BOOLEAN,
                order \in CompletionOrders(Len(pending.parsed.mathParts)) :
               LET renderedMath ==
                     RenderedBatch(pending.parsed.mathParts, path, order, 1)
                   finalHtml ==
                     reconstructText(pending.parsed.textParts,
                                     pending.parsed.mathParts, renderedMath)
               IN  pending' =
                     [pending EXCEPT
                        !.renderedMath = renderedMath,
                        !.processedHtml =
                          processReconstructedMarkdown(finalHtml,
                                                       boldUnderscores,
                                                       throws),
                        !.caught = ReconstructedCaught(finalHtml, throws)]
          /\ renderPc' = "reconstructed"
          /\ UNCHANGED error
  /\ UNCHANGED <<markdownText, html, isProcessing, mathStats, completions,
                 runs, boldUnderscores, katexVars, parseVars, unifiedVars>>

\* The branch with math resumes after processReconstructedMarkdown.
ReconstructedResume ==
  /\ renderPc = "reconstructed"
  /\ html' = postprocessText(pending.processedHtml)
  /\ LET mathParts == pending.parsed.mathParts
         count(type) ==
           Cardinality({k \in 1..Len(mathParts) : mathParts[k].type = type})
     IN  /\ mathStats' = [inline |-> count("inline"),
                          display |-> count("display")]
         /\ completions' = Append(completions,
                                  [success |-> TRUE,
                                   mathCount |-> Len(mathParts)])
  /\ isProcessing' = FALSE
  /\ renderPc' = "done"
  /\ UNCHANGED <<markdownText, error, pending, runs, boldUnderscores,
                 katexVars, parseVars, unifiedVars>>

\* The catch block resumes after the fallback conversion.
FallbackResume ==
  /\ renderPc = "fallback"
  /\ html' = IF pending.regular.rejected THEN EscapedFallback(markdownText)
             ELSE pending.regular.html
  /\ completions' = Append(completions,
                           [success |-> FALSE, mathCount |-> 0])
  /\ isProcessing' = FALSE
  /\ renderPc' = "done"
  /\ UNCHANGED <<markdownText, error, mathStats, pending, runs,
                 boldUnderscores, katexVars, parseVars, unifiedVars>>

\* ------------------------------------------------------------------------
\* MathTextProcessor.reconstructText applied to a parse and a result set
\* ------------------------------------------------------------------------

NoReconstruction == [renderedMath |-> EmptyMap, result |-> << >>]

\* The Map for the parts in `held`, each with the markup renderMath resolves
\* to on its path; the other indexes are missing from it.
ResultSet(mathParts, held, paths) ==
  [index \in {mathParts[k].index : k \in held} |->
     LET k == CHOOSE m \in held : mathParts[m].index = index
     IN  BatchMarkup(mathParts[k], paths[k])]

\* reconstructText called, as its callers do for a parse that found math,
\* with a result set that holds markup for some of the parts.
ReconstructCall ==
  /\ parseState = "parsed"
  /\ parsed.hasValidMath
  /\ parseState' = "reconstructed"
  /\ \E held \in SUBSET (1..Len(parsed.mathParts)) :
       \E paths \in [held -> BatchPaths] :
          LET renderedMath == ResultSet(parsed.mathParts, held, paths)
          IN  reconstruction' =
                [renderedMath |-> renderedMath,
                 result |-> reconstructText(parsed.textParts,
                                            parsed.mathParts, renderedMath)]
  /\ UNCHANGED <<parseText, expressions, substitution, parsed, katexVars,
                 unifiedVars, rendererVars>>

\* ------------------------------------------------------------------------
\* MathMarkdownRenderer re-rendered: useEffect starts a processMathMarkdown
\* call for every new markdownText, earlier calls still being in flight
\* ------------------------------------------------------------------------

MaxRuns == 3

\* The texts the prop takes: none, plain text, an inline and a display
\* expression.
RerenderTexts ==
  {<< >>, <<"a">>, <<"$", "x", "+", "x", "$">>, <<"$", "$", "a", "$", "$">>}

\* The parse a call works on: its closure holds the markdownText of its
\* render.
ParsedOf(text) == parse(preprocessText(text))

\* The effect of a render with a new markdownText: processMathMarkdown from
\* its start to its first await, or to the early return for an empty text.
\* `alone` records whether no earlier call was in flight.
MarkdownTextChanges ==
  /\ Len(runs) < MaxRuns
  /\ \E text \in RerenderTexts \ {markdownText} :
       /\ markdownText' = text
       /\ runs' = Append(runs,
                         [text  |-> text,
                          pc    |-> IF text = << >> THEN "done"
                                                     ELSE "converting",
                          processedHtml |-> << >>,
                          alone |-> \A r \in 1..Len(runs) :
                                       runs[r].pc = "done"])
       /\ IF text = << >>
          THEN /\ html' = << >>
               /\ error' = NoError
               /\ mathStats' = [inline |-> 0, display |-> 0]
               /\ UNCHANGED isProcessing
          ELSE /\ isProcessing' = TRUE
               /\ error' = NoError
               /\ UNCHANGED <<html, mathStats>>
  /\ UNCHANGED <<completions, renderPc, pending, boldUnderscores, katexVars,
                 parseVars, unifiedVars>>

\* Call r resumes after processRegularMarkdown (no math) or Promise.all
\* (math): the catch block up to its await when the converter threw, the
\* publication of the markup when there is no math, else reconstructText
\* and processReconstructedMarkdown up to its await.
ConversionResumes(r) ==
  /\ runs[r].pc = "converting"
  /\ \E throws \in BOOLEAN :
       IF throws
       THEN /\ error' = [set |-> TRUE, message |-> <<"b", "a", "d">>]
            /\ runs' = [runs EXCEPT ![r].pc = "fallback"]
            /\ UNCHANGED <<html, isProcessing, mathStats, completions>>
       ELSE IF ~ParsedOf(runs[r].text).hasValidMath
       THEN /\ html' = postprocessText(
                         makeHtml(preprocessText(runs[r].text),
                                  boldUnderscores))
            /\ mathStats' = [inline |-> 0, display |-> 0]
            /\ completions' = Append(completions,
                                     [success |-> TRUE, mathCount |-> 0])
            /\ isProcessing' = FALSE
            /\ runs' = [runs EXCEPT ![r].pc = "done"]
            /\ UNCHANGED error
       ELSE /\ \E path \in BatchPaths, caught \in BOOLEAN,
                  order \in CompletionOrders(
                              Len(ParsedOf(runs[r].text).mathParts)) :
                 LET parsedContent == ParsedOf(runs[r].text)
                     finalHtml ==
                       reconstructText(
                         parsedContent.textParts, parsedContent.mathParts,
                         RenderedBatch(parsedContent.mathParts, path,
                                       order, 1))
                 IN  runs' = [runs EXCEPT
                                ![r].pc = "reconstructed",
                                ![r].processedHtml =
                                  processReconstructedMarkdown(
                                    finalHtml, boldUnderscores, caught)]
            /\ UNCHANGED <<html, isProcessing, error, mathStats,
                           completions>>
  /\ UNCHANGED <<markdownText, renderPc, pending, boldUnderscores, katexVars,
                 parseVars, unifiedVars>>

\* Call r resumes after processReconstructedMarkdown: the markup and the
\* statistics are published, the finally block clears the flag.
ReconstructionResumes(r) ==
  /\ runs[r].pc = "reconstructed"
  /\ html' = postprocessText(runs[r].processedHtml)
  /\ LET mathParts == ParsedOf(runs[r].text).mathParts
         count(type) ==
           Cardinality({k \in 1..Len(mathParts) : mathParts[k].type = type})
     IN  /\ mathStats' = [inline |-> count("inline"),
                          display |-> count("display")]
         /\ completions' = Append(completions,
                                  [success |-> TRUE,
                                   mathCount |-> Len(mathParts)])
  /\ isProcessing' = FALSE
  /\ runs' = [runs EXCEPT ![r].pc = "done"]
  /\ UNCHANGED <<markdownText, error, renderPc, pending, boldUnderscores,
                 katexVars, parseVars, unifiedVars>>

\* Call r resumes in its catch block after the fallback conversion.
FallbackConversionResumes(r) ==
  /\ runs[r].pc = "fallback"
  /\ \E throws \in BOOLEAN :
       html' = IF throws THEN EscapedFallback(runs[r].text)
               ELSE makeHtml(runs[r].text, boldUnderscores)
  /\ completions' = Append(completions, [success |-> FALSE, mathCount |-> 0])
  /\ isProcessing' = FALSE
  /\ runs' = [runs EXCEPT ![r].pc = "done"]
  /\ UNCHANGED <<markdownText, error, mathStats, renderPc, pending,
                 boldUnderscores, katexVars, parseVars, unifiedVars>>

\* ------------------------------------------------------------------------
\* Specifications
\* ------------------------------------------------------------------------

\* A browser (window and document), a server (neither), or a runtime that
\* defines window without a DOM.
Environments == {<<TRUE, TRUE>>, <<FALSE, FALSE>>, <<TRUE, FALSE>>}

KatexIdle ==
  /\ katexLoaded = FALSE
  /\ katex = NULL
  /\ cssLinked = FALSE
  /\ importsStarted = 0
  /\ katexAssignments = 0
  /\ calls = [c \in Callers |-> IdleCall]
  /\ callsMade = 0

ParseIdle ==
  /\ parseText = << >>
  /\ parseState = "input"
  /\ expressions = << >>
  /\ substitution = NoSubstitution
  /\ parsed = NoParse
  /\ reconstruction = NoReconstruction

\* The component's state as useState initialises it.
RendererMounted ==
  /\ html = << >>
  /\ isProcessing = FALSE
  /\ error = NoError
  /\ mathStats = [inline |-> 0, display |-> 0]
  /\ completions = << >>
  /\ renderPc = "idle"
  /\ pending = NoPending
  /\ runs = << >>

UnifiedIdle ==
  /\ markdownValue = [type |-> "undefined", text |-> << >>]
  /\ processPc = "idle"
  /\ processStatus = "none"
  /\ result = NoResult
  /\ validation = NoValidation
  /\ postProcessing = NoPostProcessing

RendererIdle ==
  /\ markdownText = << >>
  /\ boldUnderscores = TRUE
  /\ RendererMounted

InitKatex ==
  /\ KatexIdle
  /\ \E env \in Environments : hasWindow = env[1] /\ hasDocument = env[2]
  /\ ParseIdle
  /\ isInitialized = TRUE
  /\ UnifiedIdle
  /\ RendererIdle

NextKatex ==
  \E c \in Callers :
     \/ StartCall(c)
     \/ ImportSettles(c)
     \/ AvailableResume(c)
     \/ RenderResume(c)
     \/ BatchResume(c)
     \/ \E k \in 1..MaxParts : KidImportSettles(c, k)
     \/ \E k \in 1..MaxParts : KidResume(c, k)
     \/ BatchSettles(c)

SpecKatex == InitKatex /\ [][NextKatex]_vars

InitParse ==
  /\ KatexIdle
  /\ hasWindow = TRUE
  /\ hasDocument = TRUE
  /\ parseText \in TextsOf(ScanFragments, MaxFrags)
  /\ parseState = "input"
  /\ expressions = << >>
  /\ substitution = NoSubstitution
  /\ parsed = NoParse
  /\ reconstruction = NoReconstruction
  /\ isInitialized = TRUE
  /\ UnifiedIdle
  /\ RendererIdle

NextParse ==
  \/ ParseCall
  \/ ReconstructCall

SpecParse == InitParse /\ [][NextParse]_vars

\* The module-level singleton after its constructor ran: initializeProcessor
\* either built the pipeline or caught the failure and left the flag false.
InitUnified ==
  /\ KatexIdle
  /\ \E env \in Environments : hasWindow = env[1] /\ hasDocument = env[2]
  /\ ParseIdle
  /\ isInitialized \in BOOLEAN
  /\ UnifiedIdle
  /\ RendererIdle

NextUnified ==
  \/ ProcessMarkdownCall
  \/ ProcessResolves
  \/ ProcessRejects

SpecUnified == InitUnified /\ [][NextUnified]_vars

\* The processor singleton, and one validateMarkdown call on it.
InitValidate == InitUnified

NextValidate == ValidateMarkdownCall

SpecValidate == InitValidate /\ [][NextValidate]_vars

\* The processor singleton, and one postProcessHtml call on it.
InitPostProcess == InitUnified

NextPostProcess == PostProcessHtmlCall

SpecPostProcess == InitPostProcess /\ [][NextPostProcess]_vars

\* The component mounted in a browser with some markdownText.
InitRenderer ==
  /\ KatexIdle
  /\ hasWindow = TRUE
  /\ hasDocument = TRUE
  /\ ParseIdle
  /\ isInitialized = TRUE
  /\ UnifiedIdle
  /\ markdownText \in TextsOf(RenderFragments, MaxRenderFrags)
  /\ boldUnderscores \in BOOLEAN
  /\ RendererMounted

NextRenderer ==
  \/ ProcessMathMarkdown
  \/ RegularResume
  \/ ParallelResume
  \/ ReconstructedResume
  \/ FallbackResume

SpecRenderer == InitRenderer /\ [][NextRenderer]_vars

\* The component mounted in a browser with an empty markdownText (its first
\* effect has returned early), then re-rendered with new texts.
InitRerender ==
  /\ KatexIdle
  /\ hasWindow = TRUE
  /\ hasDocument = TRUE
  /\ ParseIdle
  /\ isInitialized = TRUE
  /\ UnifiedIdle
  /\ RendererIdle

NextRerender ==
  \/ MarkdownTextChanges
  \/ \E r \in 1..MaxRuns :
       /\ r <= Len(runs)
       /\ \/ ConversionResumes(r)
          \/ ReconstructionResumes(r)
          \/ FallbackConversionResumes(r)

SpecRerender == InitRerender /\ [][NextRerender]_vars

\* ------------------------------------------------------------------------
\* Properties of the KaTeX renderer (checked under SpecKatex)
\* ------------------------------------------------------------------------

\* Number of import('katex') calls that have been issued and not settled.
ImportsInFlight ==
  Cardinality({c \in Callers : calls[c].pc = "importing"})
  + Cardinality({ck \in Callers \X (1..MaxParts) :
                   /\ ck[2] <= Len(calls[ck[1]].kids)
                   /\ calls[ck[1]].kids[ck[2]].pc = "importing"})

\* C2: concurrent first calls load the engine at most once: there is never
\* more than one import in flight, and the engine instance is assigned at
\* most once.
C2_EngineLoadedAtMostOnce ==
  /\ ImportsInFlight <= 1
  /\ katexAssignments <= 1

\* C3: once the engine is initialized (katexLoaded is true and katex is
\* set), no step of any call changes katexLoaded or katex.
C3_EngineReadOnlyAfterInit ==
  [][(katexLoaded /\ katex # NULL) => (katexLoaded' /\ katex' = katex)]_vars

\* C4: renderMath and renderMathBatch never reject to their caller, in any
\* environment and whatever the engine load and renderToString do.
C4_RenderNeverRejects ==
  \A c \in Callers :
     calls[c].op \in {"renderMath", "renderMathBatch"}
       => calls[c].status # "rejected"

\* The markup a part can get when only the part itself is looked at.
OwnMarkups(part) ==
  {WrapRendered(renderToString(part.content, part.type = "display"),
                part.type = "display"),
   createFallbackHTML(part.content, part.type = "display")}
  \cup {createErrorHTML(part.content, part.type = "display", o.message) :
           o \in RenderOutcomes}

\* C5: a batch over N parts resolves to a map whose keys are exactly the N
\* indexes; the entry of each index depends on that part alone, and the part
\* whose render threw holds failure markup, whatever the completion order.
C5_BatchIsolatesFailures ==
  \A c \in Callers :
     (calls[c].op = "renderMathBatch" /\ calls[c].pc = "settled") =>
        /\ calls[c].status = "resolved"
        /\ DOMAIN calls[c].results =
             {calls[c].parts[k].index : k \in 1..Len(calls[c].parts)}
        /\ \A k \in 1..Len(calls[c].parts) :
             LET part == calls[c].parts[k]
             IN  /\ calls[c].results[part.index] \in OwnMarkups(part)
                 /\ (k <= Len(calls[c].kids)
                        /\ calls[c].kids[k].path = "threw")
                      => \E o \in RenderOutcomes :
                           calls[c].results[part.index] =
                             createErrorHTML(part.content,
                                             part.type = "display", o.message)

\* The container class the claim assigns to an outcome and a mode.
ExpectedContainer(path, isDisplayMode) ==
  CASE path = "unavailable" ->
         IF isDisplayMode THEN "<span class=\"math-fallback-display\""
                          ELSE "<span class=\"math-fallback-inline\""
    [] path = "rendered" ->
         IF isDisplayMode THEN "<span class=\"katex-display-container\""
                          ELSE "<span class=\"katex-inline-container\""
    [] OTHER ->
         IF isDisplayMode THEN "<span class=\"math-error-display\""
                          ELSE "<span class=\"math-error-inline\""

\* Every markup a call has produced, with the outcome and mode it came from.
ProducedMarkups ==
  {[markup |-> calls[c].value, path |-> calls[c].path,
    display |-> calls[c].display, content |-> calls[c].content] :
     c \in {d \in Callers : /\ calls[d].op = "renderMath"
                            /\ calls[d].status = "resolved"}}
  \cup
  {[markup  |-> calls[ck[1]].results[calls[ck[1]].parts[ck[2]].index],
    path    |-> IF calls[ck[1]].kids = << >> THEN "unavailable"
                ELSE calls[ck[1]].kids[ck[2]].path,
    display |-> calls[ck[1]].parts[ck[2]].type = "display",
    content |-> calls[ck[1]].parts[ck[2]].content] :
     ck \in {dk \in Callers \X (1..MaxParts) :
               /\ calls[dk[1]].op = "renderMathBatch"
               /\ dk[2] <= Len(calls[dk[1]].parts)
               /\ calls[dk[1]].parts[dk[2]].index
                    \in DOMAIN calls[dk[1]].results}}

\* C6: the container of a rendered expression is fixed by outcome and mode:
\* neutral fallback when the engine is unavailable, error container when the
\* engine threw, katex container on success, always the variant of the mode;
\* the containers of different outcomes or modes differ.
C6_ContainerByOutcomeAndMode ==
  /\ \A p \in ProducedMarkups :
        p.markup[1] = ExpectedContainer(p.path, p.display)
  /\ \A p, q \in ProducedMarkups :
        (p.markup[1] = q.markup[1]) =>
           /\ p.display = q.display
           /\ (p.path = "unavailable") = (q.path = "unavailable")
           /\ (p.path = "rendered") = (q.path = "rendered")

\* C6 witness: the three outcomes have all produced markup, in both modes.
C6_Witness ==
  /\ \A path \in {"unavailable", "rendered", "threw"} :
        \E p \in ProducedMarkups : p.path = path
  /\ \E p, q \in ProducedMarkups : p.display /\ ~q.display

\* C7: both failure outputs keep the math source with its delimiters: the
\* escaped body between "$" (inline) or "$$" (display).
C7_FailureKeepsDelimitedSource ==
  \A p \in ProducedMarkups :
     p.path # "rendered" =>
        LET mathSymbol == IF p.display THEN <<"$", "$">> ELSE <<"$">>
        IN  Includes(p.markup,
                     mathSymbol \o escapeHtml(p.content) \o mathSymbol)

\* ------------------------------------------------------------------------
\* Properties of the scanner (checked under SpecParse)
\* ------------------------------------------------------------------------

\* Whether text is "$$" body "$$" with a non-empty body free of "$".
IsDisplayForm(text) ==
  /\ Len(text) >= 5
  /\ MatchesAt(text, <<"$", "$">>, 0)
  /\ MatchesAt(text, <<"$", "$">>, Len(text) - 2)
  /\ \A k \in 3..(Len(text) - 2) : text[k] # "$"

Intersects(a, b) == a.start < b.end /\ b.start < a.end

\* C8: display math has priority: "$$body$$" parses to exactly one math
\* part, of type display, whose content is the trimmed body; and no accepted
\* inline span intersects a display span, for any text.
C8_DisplayPriority ==
  parseState = "parsed" =>
     /\ IsDisplayForm(parseText) =>
          /\ Len(parsed.mathParts) = 1
          /\ parsed.mathParts[1].type = "display"
          /\ parsed.mathParts[1].content =
               Trim(Slice(parseText, 2, Len(parseText) - 2))
     /\ \A i, j \in 1..Len(expressions) :
          (expressions[i].type = "inline" /\ expressions[j].type = "display")
             => ~Intersects(expressions[i], expressions[j])

\* C8 witness: a "$$body$$" text has been parsed whose body trims to
\* something shorter that would pass the inline heuristics.
C8_Witness ==
  /\ parseState = "parsed"
  /\ IsDisplayForm(parseText)
  /\ Len(parsed.mathParts) = 1
  /\ Len(parsed.mathParts[1].content) < Len(parseText) - 4
  /\ isValidInlineMath(parsed.mathParts[1].content)

\* C9: the spans the scanner returns have start < end, are sorted by
\* ascending start and do not overlap (each ends at or before the next).
C9_SpansOrderedDisjoint ==
  parseState = "parsed" =>
     /\ \A k \in 1..Len(expressions) :
          expressions[k].start < expressions[k].end
     /\ \A k \in 1..(Len(expressions) - 1) :
          /\ expressions[k].start < expressions[k + 1].start
          /\ expressions[k].end <= expressions[k + 1].start

\* C9 witness: the scanner returned an inline span followed by a display
\* span, which it found in the other order.
C9_Witness ==
  /\ parseState = "parsed"
  /\ Len(expressions) >= 2
  /\ expressions[1].type = "inline"
  /\ expressions[2].type = "display"

\* ------------------------------------------------------------------------
\* Properties of processMarkdown (checked under SpecUnified)
\* ------------------------------------------------------------------------

\* C1: processMarkdown never rejects: every call that has settled was
\* fulfilled with a ProcessingResult, for a blank argument, a processor that
\* is not initialized, a transform that resolves and a transform that
\* throws alike; and whenever the fallback path produced the result it has
\* success = false, processor = 'fallback' and a non-empty error message.
C1_ProcessMarkdownNeverRejects ==
  /\ processStatus # "rejected"
  /\ processPc = "settled" =>
       /\ processStatus = "fulfilled"
       /\ result.processor \in {"unified", "fallback"}
       /\ (~IsBlankArgument(markdownValue) /\ ~isInitialized) =>
            result.processor = "fallback"
       /\ result.processor = "fallback" =>
            /\ ~result.success
            /\ result.hasError
            /\ result.error # << >>

\* ------------------------------------------------------------------------
\* Properties of the rendering pipeline (checked under SpecRenderer)
\* ------------------------------------------------------------------------

\* The offsets of the escaped dollars of a text.
EscapeOffsets(text) ==
  {i \in 0..(Len(text) - 1) : MatchesAt(text, <<"\\", "$">>, i)}

\* No math span found in the preprocessed text starts or ends inside what
\* stands for an escaped dollar.
NoSpanBoundaryAtEscape(text) ==
  LET preprocessed == preprocessText(text)
      spans == extractMathExpressions(preprocessed)
      covers(s, offset) ==
        /\ MatchesAt(preprocessed, ESCAPED_DOLLAR, s)
        /\ s <= offset
        /\ offset < s + Len(ESCAPED_DOLLAR)
  IN  \A k \in 1..Len(spans), s \in 0..Len(preprocessed) :
         ~covers(s, spans[k].start) /\ ~covers(s, spans[k].end - 1)

\* The markup holds at least one literal "$" for every escaped dollar of
\* the text.
DollarForEveryEscape(text, markup) ==
  Cardinality({k \in 1..Len(markup) : markup[k] = "$"})
    >= Cardinality(EscapeOffsets(text))

\* A text without escapes comes back unchanged from preprocessText followed
\* by postprocessText.
EscapeFreeTextUnchanged(text) ==
  EscapeOffsets(text) = {} => postprocessText(preprocessText(text)) = text

\* C10: for any markdownText the pipeline (preprocessText, parse, render,
\* reconstructText, postprocessText) has run on without failing, no escaped
\* dollar starts or ends a math span, the final output holds a literal "$"
\* for each escape, and a text without escapes is not changed by the
\* preprocessText/postprocessText pair.
C10_EscapedDollarStaysLiteral ==
  (renderPc = "done" /\ ~error.set) =>
    /\ NoSpanBoundaryAtEscape(markdownText)
    /\ DollarForEveryEscape(markdownText, html)
    /\ EscapeFreeTextUnchanged(markdownText)

\* The source text a piece of the preprocessed text stands for: every
\* sentinel back to the escaped dollar it replaced.
SourceOf(preprocessed) ==
  ReplaceAll(preprocessed, ESCAPED_DOLLAR, <<"\\", "$">>)

\* The text holds neither the sentinel nor the placeholder prefix, so each
\* sentinel of the preprocessed text stands for an escaped dollar.
HoldsNoToken(text) ==
  /\ ~Includes(text, ESCAPED_DOLLAR)
  /\ ~Includes(text, MATH_PLACEHOLDER_PREFIX)

\* Every inline math part stands for source content that matches one of
\* the heuristics.
InlinePartsLookLikeMath(mathParts) ==
  \A k \in 1..Len(mathParts) :
     mathParts[k].type = "inline" =>
       isValidInlineMath(
         SourceOf(Slice(mathParts[k].originalMatch, 1,
                        Len(mathParts[k].originalMatch) - 1)))

\* What was not made a math part is still in the text parts, dollars
\* included: the parts with each placeholder put back as its match are the
\* scanned text.
RejectedCandidatesStayLiteral(text, content) ==
  reconstructText(content.textParts, content.mathParts, EmptyMap) = text

\* C11: an inline $...$ candidate becomes a math part only if its source
\* content matches a 'looks like math' heuristic, also when the pipeline
\* has replaced escaped dollars by the sentinel before scanning; a
\* candidate that fails them all yields no math part and stays, with both
\* dollars, in the literal text.
C11_InlineMathOnlyByHeuristics ==
  (renderPc # "idle" /\ markdownText # << >> /\ HoldsNoToken(markdownText)) =>
    /\ InlinePartsLookLikeMath(pending.parsed.mathParts)
    /\ RejectedCandidatesStayLiteral(preprocessText(markdownText),
                                     pending.parsed)

\* The elements of textParts that reconstructText takes for placeholders.
PlaceholderElements(textParts) ==
  {k \in 1..Len(textParts) : StartsWith(textParts[k], MATH_PLACEHOLDER_PREFIX)}

\* The placeholder elements for which reconstructText finds a rendered
\* entry.
ConsumedEntries(textParts, renderedMath) ==
  {k \in PlaceholderElements(textParts) :
     extractIndexFromPlaceholder(textParts[k]) \in DOMAIN renderedMath}

\* The text holds a placeholder token.
HoldsPlaceholderToken(text) ==
  \E i \in 0..Len(text) : PlaceholderMatchEnd(text, i) # -1

\* C12: balanced spans: once the batch has been rendered and the text
\* reconstructed, the number of math spans found equals the number of
\* placeholder elements of textParts and the number of rendered entries
\* reconstructText consumed, and the reconstructed text holds no
\* placeholder token, whatever the text, a text with a placeholder-like
\* string included.
C12_BalancedSpans ==
  renderPc = "reconstructed" =>
    LET spans == extractMathExpressions(preprocessText(markdownText))
        textParts == pending.parsed.textParts
    IN  /\ Len(spans) = Cardinality(PlaceholderElements(textParts))
        /\ Len(spans) =
             Cardinality(ConsumedEntries(textParts, pending.renderedMath))
        /\ ~HoldsPlaceholderToken(
              reconstructText(textParts, pending.parsed.mathParts,
                              pending.renderedMath))

\* The text from offset `from` on with each span, from the k-th on,
\* replaced by the markup of its own expression: the literal segments and
\* the math results in source order.
RECURSIVE InSourceOrder(_, _, _, _, _)
InSourceOrder(text, spans, path, k, from) ==
  IF k > Len(spans) THEN Slice(text, from, Len(text))
  ELSE Slice(text, from, spans[k].start)
         \o BatchMarkup(spans[k], path)
         \o InSourceOrder(text, spans, path, k + 1, spans[k].end)

\* C13: within one run the reconstructed output holds the literal text
\* segments and the math results in the source order of the input, in
\* whatever order the renders of the batch completed.
C13_SourceOrderPreserved ==
  renderPc = "reconstructed" =>
    LET preprocessed == preprocessText(markdownText)
    IN  \E path \in BatchPaths :
           reconstructText(pending.parsed.textParts, pending.parsed.mathParts,
                           pending.renderedMath)
             = InSourceOrder(preprocessed,
                             extractMathExpressions(preprocessed), path, 1, 0)

\* ------------------------------------------------------------------------
\* Further properties of processMarkdown (checked under SpecUnified)
\* ------------------------------------------------------------------------

\* An empty, null or absent input.
IsEmptyInput(value) ==
  \/ value.type = "undefined"
  \/ value.type = "string" /\ value.text = << >>

\* C14: for an empty, null or absent input processMarkdown returns html ''
\* with every statistic zero and success = true, whether or not the
\* processor is initialized, and the transform is never invoked for it.
C14_EmptyInputEmptyResult ==
  IsEmptyInput(markdownValue) =>
    /\ processPc # "processing"
    /\ processPc = "settled" =>
         /\ processStatus = "fulfilled"
         /\ result.html = << >>
         /\ \A field \in DOMAIN result.stats : result.stats[field] = 0
         /\ result.success
         /\ ~result.hasError

\* processMarkdown('') has returned on a processor that is not initialized.
C14_Witness ==
  /\ processPc = "settled"
  /\ markdownValue = [type |-> "string", text |-> << >>]
  /\ ~isInitialized
  /\ result.success

\* ------------------------------------------------------------------------
\* Further properties of the rendering pipeline (checked under SpecRenderer)
\* ------------------------------------------------------------------------

\* C15: round trip on math-free text: for a markdownText without any "$"
\* the markup the pipeline publishes is what the markdown transform gives
\* for that text: scanning, placeholders and the escape pre- and
\* post-processing change nothing.
C15_MathFreeRoundTrip ==
  (renderPc = "done" /\ ~error.set /\ "$" \notin Range(markdownText)) =>
    html = makeHtml(markdownText, boldUnderscores)

\* ------------------------------------------------------------------------
\* Statistics and validation (checked under SpecUnified)
\* ------------------------------------------------------------------------

\* The number of spans of one kind the scanner finds in a text.
SpansOfKind(text, type) ==
  LET spans == extractMathExpressions(text)
  IN  Cardinality({k \in 1..Len(spans) : spans[k].type = type})

\* C16: the statistics count math spans by kind: for a text the transform
\* has processed, inlineMath is the number of its inline spans and
\* displayMath the number of its display spans, so a display span adds 1
\* to displayMath and 0 to inlineMath.
C16_StatsCountSpansByKind ==
  (processPc = "settled" /\ result.processor = "unified"
     /\ ~IsEmptyInput(markdownValue) /\ markdownValue.type = "string") =>
    /\ result.stats.inlineMath = SpansOfKind(markdownValue.text, "inline")
    /\ result.stats.displayMath = SpansOfKind(markdownValue.text, "display")

\* A stage after scanning has failed in this run: the catch block of
\* processMathMarkdown has run, or that of processReconstructedMarkdown.
StageFailed == error.set \/ pending.caught

\* The markup of the fallback: the raw text through the converter, or the
\* escaped text with line breaks.
FallbackMarkups ==
  {makeHtml(markdownText, boldUnderscores), EscapedFallback(markdownText)}

\* C17: a failure in a stage after scanning takes the run to the fallback:
\* the finished run has recorded the error, reports failure and has
\* published fallback markup only, never a partly processed result
\* reported as success; and a run ends (in Done or in Fallback) once.
C17_FailureLeadsToFallback ==
  /\ Len(completions) <= 1
  /\ (renderPc = "done" /\ StageFailed) =>
       /\ error.set
       /\ Len(completions) = 1
       /\ ~completions[1].success
       /\ html \in FallbackMarkups

\* The number of code fences of a text: in each maximal run of backticks
\* every third one completes a fence.
FenceCount(text) ==
  LET runPosition(k) ==
        k - Max({j \in 0..(k - 1) : j = 0 \/ text[j] # Backtick})
  IN  Cardinality({k \in 1..Len(text) :
                     text[k] = Backtick /\ runPosition(k) % 3 = 0})

\* The errors of the validation are exactly the ones its text calls for.
ValidationAsSpecified ==
  validation.called =>
    LET text == validation.markdown
        reports(message) ==
          \E k \in 1..Len(validation.errors) : validation.errors[k] = message
    IN  /\ reports(UnmatchedMathDelimiters)
             <=> Cardinality({k \in 1..Len(text) : text[k] = "$"}) % 2 = 1
        /\ reports(InvalidMathDelimiterPattern)
             <=> \E i \in 1..(Len(text) - 3) :
                    \A d \in 0..3 : text[i + d] = "$"
        /\ reports(UnclosedCodeBlock) <=> FenceCount(text) % 2 = 1
        /\ validation.isValid <=> validation.errors = << >>

\* C18: validateMarkdown reports unmatched math delimiters exactly when
\* the number of "$" is odd, the invalid pattern exactly when the text
\* holds "$$$$", an unclosed code block exactly when the number of fences
\* is odd; isValid is true exactly when there are no errors; and the call
\* changes no state of the processor.
C18_ValidateMarkdown ==
  /\ []ValidationAsSpecified
  /\ [][isInitialized' = isInitialized /\ processPc' = processPc
          /\ result' = result]_vars

\* A text with an odd number of dollars, four in a row and one fence has
\* been validated.
C18_Witness ==
  /\ validation.called
  /\ ~validation.isValid
  /\ Len(validation.errors) = 3

\* ------------------------------------------------------------------------
\* Further properties of the KaTeX renderer (checked under SpecKatex)
\* ------------------------------------------------------------------------

\* C19: the engine singleton is never left partly initialized: in every
\* state another call can observe (between the steps of the calls, each of
\* which runs from one await to the next), the katex instance is set
\* exactly when katexLoaded is true.
C19_EngineNeverPartlyInitialized ==
  (katex # NULL) <=> katexLoaded

\* ------------------------------------------------------------------------
\* Placeholder tokens (checked under SpecRenderer)
\* ------------------------------------------------------------------------

\* The characters with a special meaning to the markdown transform.
MarkdownSpecialCharacters == {"*", "_", Backtick, "[", "]", "#", "|"}

\* C20: every placeholder token generated for a math span holds no
\* character with a special meaning to the markdown transform, and is not
\* a substring of the user's text.
C20_PlaceholderTokensSafe ==
  renderPc # "idle" =>
    \A k \in 1..Len(pending.parsed.mathParts) :
       LET token == PlaceholderFor(pending.parsed.mathParts[k].type,
                                   pending.parsed.mathParts[k].index)
       IN  /\ Range(token) \cap MarkdownSpecialCharacters = {}
           /\ ~Includes(markdownText, token)

\* ------------------------------------------------------------------------
\* Properties of the substitution and the reconstruction
\* ------------------------------------------------------------------------

\* The text with the k-th and later spans replaced by the placeholders of
\* their kind and position, from offset `from` on: what lies between the
\* spans is copied.
RECURSIVE Substituted(_, _, _, _)
Substituted(text, spans, k, from) ==
  IF k > Len(spans) THEN Slice(text, from, Len(text))
  ELSE Slice(text, from, spans[k].start)
         \o PlaceholderFor(spans[k].type, k - 1)
         \o Substituted(text, spans, k + 1, spans[k].end)

\* C21: replaceMathWithPlaceholders, given the scanner's sorted disjoint
\* spans, returns the text with each span's range replaced by its own
\* placeholder and everything else unchanged, and the math parts in source
\* order, the i-th part carrying index i and the i-th span's source.
C21_SubstitutionMapsSpansOneToOne ==
  (parseState = "parsed" /\ Len(expressions) > 0) =>
     /\ substitution.processedText = Substituted(parseText, expressions, 1, 0)
     /\ Len(substitution.mathParts) = Len(expressions)
     /\ \A i \in 1..Len(expressions) :
          /\ substitution.mathParts[i].index = i - 1
          /\ substitution.mathParts[i].type = expressions[i].type
          /\ substitution.mathParts[i].content = expressions[i].content
          /\ substitution.mathParts[i].originalMatch =
               Slice(parseText, expressions[i].start, expressions[i].end)
     /\ parsed.mathParts = substitution.mathParts

\* C21 witness: two spans of different kinds were substituted in a text
\* that has characters before, between or after them.
C21_Witness ==
  /\ parseState = "parsed"
  /\ Len(expressions) = 2
  /\ expressions[1].type # expressions[2].type
  /\ Len(substitution.mathParts) = 2
  /\ \/ expressions[1].start > 0
     \/ expressions[1].end < expressions[2].start
     \/ expressions[2].end < Len(parseText)

\* The result sets that agree with renderedMath where it holds markup and
\* hold, for every part missing from it, the markup a render that did not
\* succeed leaves there: the error container or the neutral fallback one.
CompletedWithFailures(mathParts, renderedMath) ==
  LET missing == {k \in 1..Len(mathParts) :
                    mathParts[k].index \notin DOMAIN renderedMath}
  IN  {[index \in {mathParts[k].index : k \in 1..Len(mathParts)} |->
          IF index \in DOMAIN renderedMath THEN renderedMath[index]
          ELSE LET k == CHOOSE m \in missing : mathParts[m].index = index
               IN  BatchMarkup(mathParts[k], failure[k])] :
       failure \in [missing -> {"threw", "unavailable"}]}

\* C22: reconstructText emits for a placeholder whose index is missing from
\* the result set the same markup as for one whose render failed: its
\* result is the result for a set in which each missing index holds the
\* markup of a failed render.
C22_MissingTreatedAsFailed ==
  parseState = "reconstructed" =>
     \E completed \in CompletedWithFailures(parsed.mathParts,
                                            reconstruction.renderedMath) :
        reconstruction.result =
          reconstructText(parsed.textParts, parsed.mathParts, completed)

\* What reconstructText is to give for a text and its spans, from the k-th
\* span and offset `from` on: the literal text between the spans as it is,
\* and for each span the entry of the result set under its index or, when
\* there is none, its source.
RECURSIVE LiteralsKept(_, _, _, _, _)
LiteralsKept(text, spans, renderedMath, k, from) ==
  IF k > Len(spans) THEN Slice(text, from, Len(text))
  ELSE Slice(text, from, spans[k].start)
         \o (IF (k - 1) \in DOMAIN renderedMath THEN renderedMath[k - 1]
             ELSE Slice(text, spans[k].start, spans[k].end))
         \o LiteralsKept(text, spans, renderedMath, k + 1, spans[k].end)

\* C23: reconstructText replaces only the placeholders the substitution
\* produced: every literal segment of the text, one that begins with
\* "__MATH_" included, is in the result unchanged, neither dropped nor
\* replaced by math.
C23_OnlyPlaceholdersReplaced ==
  parseState = "reconstructed" =>
     reconstruction.result =
       LiteralsKept(parseText, expressions, reconstruction.renderedMath, 1, 0)

\* The same for the texts that do not hold the placeholder prefix.
LiteralsKeptWithoutPrefix ==
  (parseState = "reconstructed"
     /\ ~Includes(parseText, MATH_PLACEHOLDER_PREFIX)) =>
     reconstruction.result =
       LiteralsKept(parseText, expressions, reconstruction.renderedMath, 1, 0)

\* ------------------------------------------------------------------------
\* Further properties of the rendering pipeline: the transform and the math
\* ------------------------------------------------------------------------

\* A run that found math has finished without a failure in any stage.
MathRunSucceeded ==
  renderPc = "done" /\ pending.parsed.hasValidMath /\ ~StageFailed

\* C24: the text the reconstructor walks is the output of the transform
\* that ran alongside the math batch on the whole document with its
\* placeholders: the published markup is that output with each placeholder
\* replaced by its rendered math (and the escaped dollars restored), not
\* separate transforms of the pieces between the math.
C24_TransformedOnceAsOneDocument ==
  MathRunSucceeded =>
    html = postprocessText(
             reconstructText(splitTextByPlaceholders(pending.regular.html),
                             pending.parsed.mathParts, pending.renderedMath))

\* ------------------------------------------------------------------------
\* The fallback and the post-processing (checked under SpecUnified)
\* ------------------------------------------------------------------------

\* The escaped text with a line break for every newline.
EscapedWithLineBreaks(text, documentDefined) ==
  ReplaceAll(escapeHtmlUnified(text, documentDefined), <<"\n">>, <<"<br>">>)

\* C25: when the transform throws, the markup of the fallback is the
\* HTML-escaped input with newlines replaced by line breaks and nothing
\* else: no heading, emphasis, code or link markup is made up.
C25_FallbackIsEscapedTextOnly ==
  (processPc = "settled" /\ isInitialized /\ result.processor = "fallback") =>
    result.html = EscapedWithLineBreaks(markdownValue.text, hasDocument)

\* ------------------------------------------------------------------------
\* Properties of postProcessHtml (checked under SpecPostProcess)
\* ------------------------------------------------------------------------

\* The texts of the code blocks of a markup from offset i on, in order:
\* what stands between "<pre><code>" and the next "</code></pre>".
RECURSIVE CodeBodies(_, _)
CodeBodies(markup, i) ==
  LET open == FirstMatch({k \in i..Len(markup) - 1 :
                          MatchesAt(markup, <<"<pre>", "<code>">>, k)})
      close == FirstMatch({k \in (open + 2)..Len(markup) - 1 :
                           MatchesAt(markup, <<"</code>", "</pre>">>, k)})
  IN  IF open = -1 \/ close = -1 THEN << >>
      ELSE <<Slice(markup, open + 2, close)>> \o CodeBodies(markup, close + 2)

\* The code blocks hold text only, as an escaped code block does.
CodeIsText(markup) ==
  \A b \in 1..Len(CodeBodies(markup, 0)) :
     \A k \in 1..Len(CodeBodies(markup, 0)[b]) :
        CodeBodies(markup, 0)[b][k] \notin AngleTokens

\* A stretch of whitespace of the markup holds three newlines, that is two
\* or more blank lines.
HasExcessBlankLines(markup) ==
  \E i, j, k \in 1..Len(markup) :
     /\ i < j /\ j < k
     /\ markup[i] = "\n" /\ markup[j] = "\n" /\ markup[k] = "\n"
     /\ \A m \in i..k : markup[m] \in Whitespace

\* C26: the whitespace normalization of postProcessHtml leaves at most one
\* blank line where there were two or more between block-level elements,
\* and leaves the text inside code blocks (between <pre><code> and
\* </code></pre>) character for character unchanged.
C26_CodeBlocksOpaqueToNormalization ==
  postProcessing.called =>
    /\ ~Includes(postProcessing.html, <<"<pre>", "<code>">>) =>
         ~HasExcessBlankLines(postProcessing.processed)
    /\ CodeIsText(postProcessing.html) =>
         CodeBodies(postProcessing.processed, 0)
           = CodeBodies(postProcessing.html, 0)

\* The first half alone: outside code blocks no two blank lines remain.
BlankLinesCollapsed ==
  (postProcessing.called
     /\ ~Includes(postProcessing.html, <<"<pre>", "<code>">>)) =>
    ~HasExcessBlankLines(postProcessing.processed)

\* The markup from its k-th element on with one wrapper opened before each
\* table and one closed after each, nothing else changed.
RECURSIVE EachTableWrapped(_, _)
EachTableWrapped(markup, k) ==
  IF k > Len(markup) THEN << >>
  ELSE (CASE markup[k] \in TableOpenTokens ->
               <<"<div class=\"table-wrapper\">", markup[k]>>
          [] markup[k] = "</table>" -> <<"</table>", "</div>">>
          [] OTHER -> <<markup[k]>>)
         \o EachTableWrapped(markup, k + 1)

\* The markup holds a table, and every table of it stands directly inside a
\* wrapper.
TablesAlreadyWrapped(markup) ==
  /\ \E k \in 1..Len(markup) : markup[k] \in TableOpenTokens
  /\ \A k \in 1..Len(markup) :
       /\ markup[k] \in TableOpenTokens =>
            k > 1 /\ markup[k - 1] = "<div class=\"table-wrapper\">"
       /\ markup[k] = "</table>" =>
            k < Len(markup) /\ markup[k + 1] = "</div>"

\* C27: the wrapping puts every table in exactly one scrollable container
\* and changes nothing else: one opening wrapper per <table ...>, one
\* closing wrapper per </table>, and a table that is already inside a
\* wrapper is not wrapped again, so wrapping wrapped markup changes nothing.
C27_TablesWrappedExactlyOnce ==
  postProcessing.called =>
    /\ ~TablesAlreadyWrapped(postProcessing.html) =>
         postProcessing.wrapped = EachTableWrapped(postProcessing.html, 1)
    /\ TablesAlreadyWrapped(postProcessing.html) =>
         postProcessing.wrapped = postProcessing.html

\* The first half alone, for every markup: one wrapper per table tag.
OneWrapperPerTableTag ==
  postProcessing.called =>
    postProcessing.wrapped = EachTableWrapped(postProcessing.html, 1)

\* A wrapped table was handed to the method and came back wrapped twice.
WrappedTableWrappedAgain ==
  /\ postProcessing.html =
       <<"<div class=\"table-wrapper\">", "<table>", "</table>", "</div>">>
  /\ postProcessing.wrapped =
       <<"<div class=\"table-wrapper\">", "<div class=\"table-wrapper\">",
         "<table>", "</table>", "</div>", "</div>">>

\* ------------------------------------------------------------------------
\* Properties of the re-rendered component (checked under SpecRerender)
\* ------------------------------------------------------------------------

\* The markups a call publishes for a text: nothing for the empty text,
\* else the markup of a run without failure for each way the batch and the
\* reconstruction can go, or one of the two fallbacks.
MarkupsOf(text) ==
  IF text = << >> THEN {<< >>}
  ELSE LET parsedContent == parse(preprocessText(text))
       IN  {makeHtml(text, boldUnderscores), EscapedFallback(text)}
             \cup
           (IF ~parsedContent.hasValidMath
            THEN {postprocessText(makeHtml(preprocessText(text),
                                           boldUnderscores))}
            ELSE {postprocessText(
                    processReconstructedMarkdown(
                      reconstructText(
                        parsedContent.textParts, parsedContent.mathParts,
                        RenderedBatch(parsedContent.mathParts, path,
                                      order, 1)),
                      boldUnderscores, caught)) :
                  path \in BatchPaths, caught \in BOOLEAN,
                  order \in CompletionOrders(Len(parsedContent.mathParts))})

\* Every call made so far has completed.
AllCallsCompleted ==
  Len(runs) > 0 /\ \A r \in 1..Len(runs) : runs[r].pc = "done"

\* C28: latest input wins: once every call in flight has completed, in
\* whatever order, the displayed html is markup computed from the current
\* markdownText, never that of an earlier text.
C28_LatestInputWins ==
  AllCallsCompleted => html \in MarkupsOf(markdownText)

\* The same for the histories in which no call started while another was
\* in flight.
LatestInputWinsInSequence ==
  (AllCallsCompleted /\ \A r \in 1..Len(runs) : runs[r].alone) =>
    html \in MarkupsOf(markdownText)

\* C29: isProcessing is true exactly while a call is in flight: a call that
\* finishes or returns early leaves the flag true if another call is still
\* running, and the flag is false once none is.
C29_FlagTracksCallsInFlight ==
  isProcessing <=> \E r \in 1..Len(runs) : runs[r].pc # "done"

\* The flag is false whenever no call is in flight.
FlagClearWhenIdle ==
  (\A r \in 1..Len(runs) : runs[r].pc = "done") => ~isProcessing

\* ------------------------------------------------------------------------
\* Math that did not render and the text around it (checked under
\* SpecRenderer)
\* ------------------------------------------------------------------------

\* What reconstructText appends for each element of textParts.
ReconstructedPieces(content, renderedMath) ==
  [k \in 1..Len(content.textParts) |->
     reconstructText(<<content.textParts[k]>>, content.mathParts,
                     renderedMath)]

\* The k-th of the pieces begins at this offset of their concatenation.
OffsetOf(pieces, k) == Len(Join(SubSeq(pieces, 1, k - 1)))

\* Every literal segment that is not blank lies in parts of the
\* reconstructed text that processReconstructedMarkdown sends through the
\* converter, none of it in a part that is kept as it is.
LiteralSegmentsConverted(content, renderedMath) ==
  LET pieces == ReconstructedPieces(content, renderedMath)
      parts  == SplitKatexFrom(Join(pieces), 0)
  IN  \A k \in 1..Len(pieces) :
         (k % 2 = 1 /\ Trim(pieces[k]) # << >>) =>
           \A p \in 1..Len(parts) :
              (/\ OffsetOf(parts, p) < OffsetOf(pieces, k + 1)
               /\ OffsetOf(pieces, k) < OffsetOf(parts, p + 1))
                => ~IsRenderedMath(parts[p])

\* The batch ended in neutral-fallback or error markup.
MathNotRendered ==
  \E index \in DOMAIN pending.renderedMath :
     pending.renderedMath[index][1] \notin KatexSpanOpeners

\* C30: math that ends in neutral-fallback or error markup does not change
\* how the text around it is handled: every literal text segment is sent
\* through the markdown transform, as it is when all math renders.
C30_TextHandledAlikeWhenMathFails ==
  (renderPc \in {"reconstructed", "done"} /\ ~StageFailed
     /\ pending.parsed.hasValidMath) =>
    LiteralSegmentsConverted(pending.parsed, pending.renderedMath)

\* The same for the runs in which all math rendered.
TextConvertedWhenMathRenders ==
  (renderPc \in {"reconstructed", "done"} /\ ~StageFailed
     /\ pending.parsed.hasValidMath /\ ~MathNotRendered) =>
    LiteralSegmentsConverted(pending.parsed, pending.renderedMath)

====
